---- MODULE Spec2Model ----
(***************************************************************************)
(* Region resolution and capability routing: the GeoRouter (IP detection   *)
(* with a cascading provider chain, a per-IP result cache and a per-IP     *)
(* in-flight map) modelled as a state machine of JavaScript tasks.         *)
(*                                                                         *)
(* One action is one run-to-completion slice of the event loop: the        *)
(* synchronous part of detect() up to its first await, the settlement of   *)
(* one awaited strategy inside performDetection(), or the continuation of  *)
(* a detect() call after the promise it awaits has settled.                *)
(***************************************************************************)
EXTENDS Integers, Sequences, FiniteSets, TLC

\* ------------------------------------------------------------------ bounds
NCallers == 2
MaxChains == 2
MaxTicks == 2
MaxAdapters == 2
MaxInits == 2
NPayers == 2
MaxPayments == 2
MaxRetriesArg == 2
MaxFallbacks == 3

\* --------------------------------------------------------- program constants
CACHE_TTL == 1000 * 60 * 60
REQUEST_TIMEOUT == 5000

\* The clock advances in steps of one default TTL.
TickMs == CACHE_TTL

\* The runtime value undefined passed as ip (the parameter is only typed as
\* a string; nothing checks it at run time).
Undefined == "<undefined>"

\* The client IPs the callers present.
IPs == {"8.8.8.8", Undefined}

\* Country codes the lookup services report.
CountryCodes == {"DE"}

\* options.cacheTTL as passed by a caller; 0 also stands for an omitted option.
TTLOptions == {0, 3 * CACHE_TTL}

Callers == 1..NCallers

\* ------------------------------------------------------------- classifier
EUROPEAN_COUNTRIES ==
    {"AT", "BE", "BG", "HR", "CY", "CZ", "DK", "EE", "FI", "FR", "DE", "GR", "HU",
     "IE", "IT", "LV", "LT", "LU", "MT", "NL", "PL", "PT", "RO", "SK", "SI", "ES", "SE",
     "IS", "LI", "NO", "GB", "CH"}

getRegionFromCountryCode(countryCode) ==
    IF countryCode = "CN" THEN "china"
    ELSE IF countryCode = "US" THEN "usa"
    ELSE IF countryCode = "IN" THEN "india"
    ELSE IF countryCode = "SG" THEN "singapore"
    ELSE IF countryCode \in EUROPEAN_COUNTRIES THEN "europe"
    ELSE "other"

\* Variant of the membership test that knows the EU member states only.
isEuropeanCountry_EUOnly(countryCode) ==
    countryCode \in EUROPEAN_COUNTRIES \ {"IS", "LI", "NO", "GB", "CH"}

isEuropeanCountry(countryCode) == countryCode \in EUROPEAN_COUNTRIES

\* Variant of the mapping with the case for singapore missing.
mapToRegionType_NoSingapore(region) ==
    CASE region = "china" -> "china"
      [] region = "usa" -> "usa"
      [] region = "europe" -> "europe"
      [] region = "india" -> "india"
      [] OTHER -> "other"

mapToRegionType(region) ==
    CASE region = "china" -> "china"
      [] region = "usa" -> "usa"
      [] region = "europe" -> "europe"
      [] region = "india" -> "india"
      [] region = "singapore" -> "singapore"
      [] OTHER -> "other"

getCurrencyByRegion(region) ==
    CASE region = "china" -> "CNY"
      [] region = "europe" -> "EUR"
      [] OTHER -> "USD"

getPaymentMethodsByRegion(region) ==
    CASE region = "china" -> <<"wechat", "alipay">>
      [] region = "europe" -> <<>>
      [] OTHER -> <<"stripe", "paypal">>

getAuthMethods(region) ==
    CASE region = "china" -> <<"wechat", "email">>
      [] region = "europe" -> <<"email">>
      [] OTHER -> <<"google", "email">>

buildGeoResult(countryCode) ==
    LET region == mapToRegionType(getRegionFromCountryCode(countryCode))
    IN  [region |-> region,
         countryCode |-> countryCode,
         currency |-> getCurrencyByRegion(region),
         paymentMethods |-> getPaymentMethodsByRegion(region),
         authMethods |-> getAuthMethods(region),
         database |-> IF region = "china" THEN "cloudbase" ELSE "supabase",
         deployment |-> IF region = "china" THEN "tencent" ELSE "vercel",
         gdprCompliant |-> isEuropeanCountry(countryCode)]

getDefaultGeoResult ==
    [region |-> "usa",
     countryCode |-> "US",
     currency |-> "USD",
     paymentMethods |-> <<"stripe", "paypal">>,
     authMethods |-> <<"google", "email">>,
     database |-> "supabase",
     deployment |-> "vercel",
     gdprCompliant |-> FALSE]

\* The absence of a GeoResult (a promise that holds no value).
NoResult ==
    [region |-> "", countryCode |-> "", currency |-> "",
     paymentMethods |-> <<>>, authMethods |-> <<>>,
     database |-> "", deployment |-> "", gdprCompliant |-> FALSE]

\* ------------------------------------- exported classifier (ip-detection)
\* The library's own tables, keyed by the Region string; the two that share
\* a name with a method of the router carry the module's name in front.
MainRegions == {"usa", "india", "singapore", "other"}

ipDetection_getPaymentMethodsByRegion(region) ==
    CASE region = "china" -> <<"wechat", "alipay">>
      [] region = "europe" -> <<>>
      [] region \in MainRegions -> <<"stripe", "paypal">>
      [] OTHER -> <<>>

ipDetection_getCurrencyByRegion(region) ==
    CASE region = "china" -> "CNY"
      [] region = "europe" -> "EUR"
      [] region \in MainRegions -> "USD"
      [] OTHER -> "USD"

\* Variant of the table without the case for other and without a default.
getDatabaseByRegion_NoOther(region) ==
    CASE region = "china" -> "cloudbase"
      [] region \in {"usa", "india", "singapore", "europe"} -> "supabase"
      [] OTHER -> ""

getDatabaseByRegion(region) ==
    CASE region = "china" -> "cloudbase"
      [] region \in MainRegions \cup {"europe"} -> "supabase"
      [] OTHER -> "supabase"

getDeploymentByRegion(region) ==
    CASE region = "china" -> "tencent"
      [] region \in MainRegions \cup {"europe"} -> "vercel"
      [] OTHER -> "vercel"

getAuthMethodsByRegion(region) ==
    CASE region = "china" -> <<"wechat", "email">>
      [] region = "europe" -> <<"email">>
      [] region \in MainRegions -> <<"google", "github", "email">>
      [] OTHER -> <<>>

getDefaultLanguage(region) == IF region = "china" THEN "zh" ELSE "en"

getRegionConfig(countryCode) ==
    LET region == getRegionFromCountryCode(countryCode)
    IN  [region |-> region,
         countryCode |-> countryCode,
         currency |-> ipDetection_getCurrencyByRegion(region),
         paymentMethods |-> ipDetection_getPaymentMethodsByRegion(region),
         authMethods |-> getAuthMethodsByRegion(region),
         database |-> getDatabaseByRegion(region),
         deployment |-> getDeploymentByRegion(region),
         language |-> getDefaultLanguage(region),
         gdprCompliant |-> isEuropeanCountry(countryCode)]

\* No call of the classifier has been made.
NotClassified == [by |-> "none", countryCode |-> "", descriptor |-> NoResult]

\* ------------------------------------------------------- local heuristic
NaN == -1

\* ip.split(".").map(Number) for the modelled IP strings.
SplitNumbers(ip) ==
    CASE ip = "8.8.8.8" -> <<8, 8, 8, 8>>
      [] ip = "203.0.113.5" -> <<203, 0, 113, 5>>
      [] ip = "10.0.0.5" -> <<10, 0, 0, 5>>
      [] ip = "172.16.0.1" -> <<172, 16, 0, 1>>
      [] ip = "192.168.1.1" -> <<192, 168, 1, 1>>
      [] ip = "127.0.0.1" -> <<127, 0, 0, 1>>
      [] ip = "" -> <<0>>
      [] OTHER -> <<NaN>>

isPrivateIP(ip) ==
    LET parts == SplitNumbers(ip)
    IN  IF Len(parts) # 4 THEN FALSE
        ELSE \/ parts[1] = 10
             \/ (parts[1] = 172 /\ parts[2] >= 16 /\ parts[2] <= 31)
             \/ (parts[1] = 192 /\ parts[2] = 168)

\* What a strategy hands back: a GeoResult, or the error it threw.
Returned(result) == [ok |-> TRUE, result |-> result, error |-> ""]
Thrown(error) == [ok |-> FALSE, result |-> NoResult, error |-> error]

TypeErrorSplit == "TypeError: Cannot read properties of undefined (reading 'split')"
AllFailedError == "All geo detection methods failed"

\* Variants of the local heuristic: one without the private-range check,
\* one that falls back to China for every address.
detectLocally_NoPrivateCheck(ip) ==
    IF ip = Undefined THEN Thrown(TypeErrorSplit)
    ELSE Returned(buildGeoResult("US"))
detectLocally_ChinaFallback(ip) ==
    IF ip = Undefined THEN Thrown(TypeErrorSplit)
    ELSE Returned(buildGeoResult("CN"))

\* detectLocally: ip.split throws when ip is not a string.
detectLocally(ip) ==
    IF ip = Undefined THEN Thrown(TypeErrorSplit)
    ELSE IF isPrivateIP(ip) THEN Returned(buildGeoResult("CN"))
    ELSE Returned(buildGeoResult("US"))

\* Variant of the shortcut test that knows the IPv4 loopback only.
IsLoopbackOrEmpty_NoIPv6(ip) ==
    ip = Undefined \/ ip = "" \/ ip = "127.0.0.1"

\* !ip || ip === "" || ip === "::1" || ip === "127.0.0.1"
IsLoopbackOrEmpty(ip) ==
    ip = Undefined \/ ip = "" \/ ip = "::1" \/ ip = "127.0.0.1"

\* ------------------------------------------------------ network strategies
\* What the network does with one request: fetch either fails (timeout by
\* abort, or a network error) or yields a response with a status, and a JSON
\* body with or without the vendor's error indicator, country code and name.
NoResponse ==
    [fetch |-> "ok", ok2xx |-> FALSE, vendorError |-> FALSE, cc |-> "", hasName |-> FALSE]

Responses ==
    {[fetch |-> "ok", ok2xx |-> TRUE, vendorError |-> FALSE, cc |-> cc, hasName |-> n] :
        cc \in CountryCodes \cup {""}, n \in BOOLEAN}
    \cup {[fetch |-> "ok", ok2xx |-> TRUE, vendorError |-> TRUE, cc |-> cc, hasName |-> TRUE] :
        cc \in CountryCodes \cup {""}}
    \cup {[NoResponse EXCEPT !.fetch = f] : f \in {"ok", "timeout", "network"}}

detectWithPrimaryService(ip, resp) ==
    IF IsLoopbackOrEmpty(ip) THEN detectLocally(ip)
    ELSE IF resp.fetch = "timeout" THEN Thrown("Request timeout")
    ELSE IF resp.fetch = "network" THEN Thrown("fetch failed")
    ELSE IF ~resp.ok2xx THEN Thrown("HTTP status")
    ELSE IF resp.vendorError THEN Thrown("IP detection failed")
    ELSE IF resp.cc = "" \/ ~resp.hasName
         THEN Thrown("Invalid response: missing country_code or country_name")
    ELSE Returned(buildGeoResult(resp.cc))

detectWithFallbackService(ip, resp) ==
    IF IsLoopbackOrEmpty(ip) THEN detectLocally(ip)
    ELSE IF resp.fetch = "timeout" THEN Thrown("Request timeout")
    ELSE IF resp.fetch = "network" THEN Thrown("fetch failed")
    ELSE IF ~resp.ok2xx THEN Thrown("Fallback service HTTP status")
    ELSE IF resp.vendorError THEN Thrown("Fallback IP detection failed")
    ELSE IF resp.cc = "" THEN Thrown("Invalid fallback response: missing countryCode")
    ELSE Returned(buildGeoResult(resp.cc))

detectWithThirdFallback(ip, resp) ==
    IF IsLoopbackOrEmpty(ip) THEN detectLocally(ip)
    ELSE IF resp.fetch = "timeout" THEN Thrown("Request timeout")
    ELSE IF resp.fetch = "network" THEN Thrown("fetch failed")
    ELSE IF ~resp.ok2xx THEN Thrown("Third fallback service HTTP status")
    ELSE IF resp.cc = "" THEN Thrown("Invalid third fallback response: missing country")
    ELSE Returned(buildGeoResult(resp.cc))

\* detectionMethods[i], i = 1..4, applied to what the network answered.
detectionMethods(i, ip, resp) ==
    CASE i = 1 -> detectWithPrimaryService(ip, resp)
      [] i = 2 -> detectWithFallbackService(ip, resp)
      [] i = 3 -> detectWithThirdFallback(ip, resp)
      [] OTHER -> detectLocally(ip)

NumMethods == 4

\* Calling detectionMethods[i] issues a fetch exactly when it is one of the
\* three network strategies and the loopback shortcut does not apply.
IssuesFetch(i, ip) == i < NumMethods /\ ~IsLoopbackOrEmpty(ip)

\* ----------------------------------------------------------- auth adapters
\* DeploymentRegion, and getAuth() called without an argument.
DeploymentRegions == {"CN", "INTL"}
NoRegion == ""

Envs == [window : BOOLEAN, supabaseConfigured : BOOLEAN, chinaRegion : BOOLEAN]

DefaultEnv == [window |-> TRUE, supabaseConfigured |-> TRUE, chinaRegion |-> FALSE]

\* new CloudBaseAuthAdapter(): the constructor only logs.
CloudBaseAuthAdapter(region) ==
    [kind |-> "CloudBaseAuthAdapter", region |-> region, supabase |-> "none"]

\* new SupabaseAuthAdapter(): in a browser the constructor starts the
\* dynamic import that will create the client; elsewhere it does nothing and
\* this.supabase stays undefined.  It never throws.
SupabaseAuthAdapter(region, e) ==
    [kind |-> "SupabaseAuthAdapter", region |-> region,
     supabase |-> IF e.window THEN "importing" ELSE "undefined"]

\* createAuthAdapter(region); region records the region it was called with.
createAuthAdapter(region, e) ==
    IF region = "CN" THEN CloudBaseAuthAdapter(region)
    ELSE SupabaseAuthAdapter(region, e)

\* region || (isChinaRegion() ? DeploymentRegion.CN : DeploymentRegion.INTL)
TargetRegion(region, e) ==
    IF region # NoRegion THEN region
    ELSE IF e.chinaRegion THEN "CN" ELSE "INTL"

\* Variant of the memo test that always constructs.
NeedsAdapter_Always(instance) == TRUE

\* if (!authInstance)
NeedsAdapter(instance) == instance = 0

\* new Error("Supabase 客户端未初始化"), the message transliterated.
NotInitializedError == "Supabase client not initialized"

\* if (!this.supabase) throw new Error("Supabase 客户端未初始化"): the
\* synchronous prefix of every SupabaseAuthAdapter method.  The CloudBase
\* adapter sends its request to /api/auth whatever its state.
MethodOutcome(adapter) ==
    IF adapter.kind = "SupabaseAuthAdapter" /\ adapter.supabase # "client"
    THEN [kind |-> "throw", error |-> NotInitializedError]
    ELSE [kind |-> "request", error |-> ""]

NoAuthCall ==
    [op |-> "none", region |-> NoRegion, target |-> NoRegion, returned |-> 0,
     constructed |-> FALSE, outcome |-> [kind |-> "none", error |-> ""]]

\* ------------------------------------------------------ database connectors
ConnectorKinds == {"CloudBaseConnector", "SupabaseConnector"}

\* private client: any = null, and the history of the connector: how many
\* clients the SDK has made for it, whether an initialize succeeded with no
\* close since, whether an initialize failed, whether it was closed,
\* whether a testConnection awaits its query, whether one returned false.
NewConnector ==
    [client |-> 0, inits |-> 0, live |-> FALSE, failed |-> FALSE,
     closed |-> FALSE, testing |-> FALSE, testFailed |-> FALSE]

NotInitialized(kind) ==
    IF kind = "CloudBaseConnector"
    THEN "CloudBase client not initialized. Call initialize() first."
    ELSE "Supabase client not initialized. Call initialize() first."

\* What cloudbase.init / createClient do: hand back a new client or throw.
SdkOutcomes == {"client", "throws"}
SdkError == "sdk error"

ConnReturn(v) == [kind |-> "return", value |-> v, error |-> ""]
ConnThrow(e) == [kind |-> "throw", value |-> 0, error |-> e]

NoConnectorCall == [kind |-> "", op |-> "none", outcome |-> ConnReturn(0)]

\* Variant of initialize that does nothing once a client has been made.
initialize_OnceOnly(conn, sdk) ==
    IF sdk = "throws" \/ conn.inits > 0 THEN conn.client ELSE conn.inits + 1

\* Variant of initialize whose catch block also drops the client.
initialize_ClearsOnFailure(conn, sdk) ==
    IF sdk = "throws" THEN 0 ELSE conn.inits + 1

\* this.client after initialize(config): the assignment is reached only
\* when the SDK call has returned.
initialize(conn, sdk) ==
    IF sdk = "throws" THEN conn.client ELSE conn.inits + 1

\* getClient(): CloudBase hands out the database handle of its client,
\* Supabase the client itself.
getClient(kind, conn) ==
    IF conn.client = 0 THEN ConnThrow(NotInitialized(kind))
    ELSE ConnReturn([client |-> conn.client,
                     handle |-> IF kind = "CloudBaseConnector"
                                THEN "database" ELSE "client"])

\* How the health query of testConnection can end: the promise resolves,
\* resolves to an object with an error field (Supabase), or rejects.
QueryOutcomes(kind) ==
    IF kind = "CloudBaseConnector" THEN {"resolved", "rejected"}
    ELSE {"resolved", "error", "rejected"}

\* Variant of testConnection without the try/catch.
testConnection_NoCatch(kind, query) ==
    IF query = "rejected" THEN ConnThrow(SdkError)
    ELSE ConnReturn(query = "resolved")

\* testConnection() once the query has settled: return true (CloudBase),
\* return !error (Supabase), and false from the catch block.
testConnection(kind, query) == ConnReturn(query = "resolved")

\* ----------------------------------------------------------- payment service
Payers == 1..NPayers

\* PaymentOrder and the paymentMethod argument.
Orders == {[userId |-> "u1", amount |-> 100, currency |-> "USD"]}
PaymentMethods == {"stripe"}

\* How the provider-specific doProcessPayment can end: a result with
\* success true, a result with success false, or an exception.
ProviderOutcomes == {"success", "declined", "throws"}

\* How a repository call can end.
RepositoryOutcomes == {"ok", "throws"}

\* The record repository.save is given: status "pending".
NewPaymentRecord(order, paymentMethod) ==
    [userId |-> order.userId, amount |-> order.amount,
     currency |-> order.currency, status |-> "pending",
     paymentMethod |-> paymentMethod]

\* if (result.success) "completed" else "failed"
StatusFor(success) == IF success THEN "completed" ELSE "failed"

\* A processPayment call: where it is (saving, processing, updating), the
\* order, the id of the record it created, and the provider's result.
NotProcessing ==
    [pc |-> "idle", order |-> [userId |-> "", amount |-> 0, currency |-> ""],
     paymentMethod |-> "", record |-> 0, success |-> FALSE]

NoPayment == [payer |-> 0, kind |-> "none", record |-> 0, success |-> FALSE]

\* ------------------------------------------------------------ error handler
\* An error value: an ArchitectureError with its type, code and retryable
\* flag, or another Error with its name and the marker substrings that its
\* message contains.
PlainError(name, message) ==
    [arch |-> FALSE, name |-> name, message |-> message,
     type |-> "", code |-> "", retryable |-> FALSE]

ArchitectureError(message, type, code, retryable) ==
    [arch |-> TRUE, name |-> "ArchitectureError", message |-> message,
     type |-> type, code |-> code, retryable |-> retryable]

\* error.message?.includes(a) || error.message?.includes(b)
Includes(error, markers) == error.message \cap markers # {}

\* classifyError(error): the first test that applies decides.
classifyError(error) ==
    IF error.arch THEN error
    ELSE IF error.name = "TypeError"
    THEN ArchitectureError(error.message, "VALIDATION_ERROR", "TYPE_ERROR", FALSE)
    ELSE IF Includes(error, {"timeout", "TIMEOUT"})
    THEN ArchitectureError(error.message, "TIMEOUT_ERROR", "TIMEOUT", TRUE)
    ELSE IF Includes(error, {"401", "Unauthorized"})
    THEN ArchitectureError(error.message, "AUTHENTICATION_ERROR", "AUTH_FAILED", FALSE)
    ELSE IF Includes(error, {"403", "Forbidden"})
    THEN ArchitectureError(error.message, "AUTHORIZATION_ERROR", "ACCESS_DENIED", FALSE)
    ELSE IF Includes(error, {"404", "Not found"})
    THEN ArchitectureError(error.message, "NOT_FOUND_ERROR", "NOT_FOUND", FALSE)
    ELSE IF Includes(error, {"429", "rate limit"})
    THEN ArchitectureError(error.message, "RATE_LIMIT_ERROR", "RATE_LIMIT", TRUE)
    ELSE IF Includes(error, {"500", "Internal server error"})
    THEN ArchitectureError(error.message, "SERVER_ERROR", "SERVER_ERROR", TRUE)
    ELSE ArchitectureError(error.message, "NETWORK_ERROR", "UNKNOWN_ERROR", TRUE)

\* The errors with which fn rejects: one for each branch of classifyError
\* and some to which several branches could apply.
RetryErrors ==
    {ArchitectureError({"quota"}, "RATE_LIMIT_ERROR", "QUOTA", TRUE),
     ArchitectureError({"invalid"}, "VALIDATION_ERROR", "INVALID", FALSE),
     PlainError("TypeError", {"timeout"}),
     PlainError("Error", {"timeout", "401"}),
     PlainError("Error", {"401"}),
     PlainError("Error", {"Forbidden"}),
     PlainError("Error", {"404", "429"}),
     PlainError("Error", {"rate limit"}),
     PlainError("Error", {"500"}),
     PlainError("Error", {})}

NoError == PlainError("", {})

\* The value with which fn resolves.
RetryValue == "value"

\* maxRetries: number = 3, delay: number = 1000
DefaultMaxRetries == 3
DefaultDelay == 1000
Omitted == -1
MaxRetriesArgs == (0..MaxRetriesArg) \cup {Omitted}

\* Variant of the test that retries whatever the error.
GivesUp_IgnoresRetryable(attempt, maxRetries, classifiedError) ==
    attempt = maxRetries

\* if (attempt === maxRetries || !classifiedError.retryable)
GivesUp(attempt, maxRetries, classifiedError) ==
    attempt = maxRetries \/ ~classifiedError.retryable

\* A withRetry call: where it is, its arguments, the loop counter, the
\* number of fn() calls made, lastError and what it returned or threw.
NoRetry ==
    [pc |-> "idle", maxRetries |-> 0, attempt |-> 0, calls |-> 0,
     delay |-> 0, lastError |-> NoError, returned |-> "", thrown |-> NoError]

\* The functions that can be registered as fallbacks.
FallbackFns == {"primary", "secondary"}

\* What fallback fn resolves to, and the message of the error it rejects
\* with.
FallbackValue(fn) == <<"value of", fn>>
FallbackError(fn) == <<fn, "failed">>

\* new Error(`All fallbacks failed. Errors: ${errors.map(e => e.message).join(', ')}`)
AllFallbacksFailed(errors) == [message |-> "All fallbacks failed", errors |-> errors]

NoFallbackError == [message |-> "", errors |-> <<>>]

\* private fallbacks = [], and an executeWithFallbacks call: where it is,
\* the index the loop is at, the fallbacks it has called, the errors
\* collected, what it returned or threw.
NewFallbackHandler ==
    [fallbacks |-> <<>>, pc |-> "idle", index |-> 0, invoked |-> <<>>,
     errors |-> <<>>, returned |-> <<>>, thrown |-> NoFallbackError]

\* Variant of the loop that goes on to the later fallbacks after a success.
afterFallback_RunsAll(fb, ok) ==
    LET seen == IF ok THEN [fb EXCEPT !.returned = FallbackValue(fb.fallbacks[fb.index])]
                ELSE [fb EXCEPT !.errors = Append(@, FallbackError(fb.fallbacks[fb.index]))]
    IN  IF fb.index < Len(fb.fallbacks)
        THEN [seen EXCEPT !.index = @ + 1, !.invoked = Append(@, fb.index + 1)]
        ELSE IF seen.returned # <<>> THEN [seen EXCEPT !.pc = "returned"]
        ELSE [seen EXCEPT !.pc = "thrown", !.thrown = AllFallbacksFailed(seen.errors)]

\* The loop body of executeWithFallbacks once the awaited fallback has
\* settled: return its value, or push the error and continue with the
\* next fallback, and after the last one the final throw.
afterFallback(fb, ok) ==
    IF ok
    THEN [fb EXCEPT !.pc = "returned",
                    !.returned = FallbackValue(fb.fallbacks[fb.index])]
    ELSE LET errors == Append(fb.errors, FallbackError(fb.fallbacks[fb.index])) IN
         IF fb.index < Len(fb.fallbacks)
         THEN [fb EXCEPT !.errors = errors, !.index = @ + 1,
                         !.invoked = Append(@, fb.index + 1)]
         ELSE [fb EXCEPT !.errors = errors, !.pc = "thrown",
                         !.thrown = AllFallbacksFailed(errors)]

\* ------------------------------------------------------------------ state
VARIABLES
    now,              \* Date.now()
    cache,            \* GeoRouter.cache: ip -> [result, timestamp]
    pendingRequests,  \* GeoRouter.pendingRequests: ip -> promise (index into chains)
    chains,           \* the promises returned by performDetection, in launch order
    callers,          \* the detect() call each request-handling unit is waiting in
    last,             \* the detect() call that returned or threw in the step
                      \* just taken (Idle when the step ended no call)
    classified,       \* the last call of the region classifier: its country
                      \* code argument and the descriptor it returned
    env,              \* the process environment: whether window is defined,
                      \* whether the Supabase URL and key are configured,
                      \* whether the deployment region is China
    authInstance,     \* auth adapter module: let authInstance (0 is null,
                      \* otherwise an index into adapters)
    adapters,         \* the auth adapters constructed so far
    authLast,         \* the getAuth call made in the step just taken
    handedOut,        \* for each region, the adapter the first getAuth call
                      \* for it returned (0 before any)
    connectors,       \* the two database connectors: this.client, and what
                      \* has been done to the connector so far
    connLast,         \* the connector call that returned in the step just
                      \* taken
    payments,         \* the payment repository: the records saved so far
    processing,       \* the processPayment calls under way
    payLast,          \* the processPayment call that finished in the step
                      \* just taken
    retry,            \* the withRetry call under way or last finished
    fallback          \* a FallbackHandler: its fallbacks and the
                      \* executeWithFallbacks call under way or last finished

vars == <<now, cache, pendingRequests, chains, callers, last, classified,
          env, authInstance, adapters, authLast, handedOut,
          connectors, connLast, payments, processing, payLast,
          retry, fallback>>

\* The GeoRouter's own state, and the state outside it.
routerVars == <<now, cache, pendingRequests, chains, callers, last>>
authVars == <<env, authInstance, adapters, authLast, handedOut>>
connVars == <<connectors, connLast>>
payVars == <<payments, processing, payLast>>
utilVars == <<retry, fallback>>
outsideRouter == <<classified, authVars, connVars, payVars, utilVars>>

\* Map operations (Map.has / Map.set / Map.delete); a Map is a function
\* whose domain is the set of its keys.
EmptyMap == [k \in {} |-> 0]
MapHas(m, k) == k \in DOMAIN m
MapSet(m, k, v) == [x \in DOMAIN m \cup {k} |-> IF x = k THEN v ELSE m[x]]
MapDelete(m, k) == [x \in DOMAIN m \ {k} |-> m[x]]

\* options.cacheTTL || this.CACHE_TTL
EffectiveTTL(opt) == IF opt = 0 THEN CACHE_TTL ELSE opt

\* Variants of the cache check: one that ignores the age of the entry, one
\* that never finds an entry.
CacheFresh_IgnoresAge(c, ip, t, cacheTTL) == MapHas(c, ip)
CacheFresh_Never(c, ip, t, cacheTTL) == FALSE

\* Variant of the cache check that still serves an entry exactly one TTL old.
CacheFresh_Inclusive(c, ip, t, cacheTTL) ==
    MapHas(c, ip) /\ t - c[ip].timestamp <= cacheTTL

\* cached && Date.now() - cached.timestamp < cacheTTL
CacheFresh(c, ip, t, cacheTTL) ==
    MapHas(c, ip) /\ t - c[ip].timestamp < cacheTTL

\* Variant of the in-flight check that never finds a pending request.
HasPending_Never(p, ip) == FALSE

\* const pending = this.pendingRequests.get(ip); if (pending) ...
HasPending(p, ip) == MapHas(p, ip)

\* What detect() hands to its caller:
NoOutcome == [kind |-> "none", result |-> NoResult, error |-> ""]
Return(result) == [kind |-> "return", result |-> result, error |-> ""]
Throw(error) == [kind |-> "throw", result |-> NoResult, error |-> error]

\* A detect() call: its ip argument, how it is served (role: from the
\* cache, as the launcher of a chain, or joined to the in-flight promise),
\* the promise it awaits and, once it is over, what it handed to its caller.
\* A request-handling unit is idle or waiting inside one call.
Call(ip, role, promise, outcome) ==
    [ip |-> ip, role |-> role, promise |-> promise, outcome |-> outcome]

Idle == Call("", "idle", 0, NoOutcome)

\* ------------------------------------------------------- performDetection
\* The promise of one performDetection(ip) call.  step is the index of the
\* detection method whose result the loop is awaiting; invoked and fetched
\* record the methods called and the requests issued so far; published
\* tells that the launching call has resumed and handled the outcome.
Resolve(ch, result) == [ch EXCEPT !.state = "resolved", !.result = result]
Reject(ch, error) == [ch EXCEPT !.state = "rejected", !.error = error]

\* Calling detectionMethods[i] from the loop.  The first three are async
\* functions, so whatever they do comes back through the awaited promise;
\* detectLocally is synchronous, so when it throws the catch block runs at
\* once and the loop falls through to the final throw.
Invoke(ch, i) ==
    LET called == [ch EXCEPT !.step = i,
                             !.invoked = Append(@, i),
                             !.fetched = IF IssuesFetch(i, ch.ip)
                                         THEN Append(@, i) ELSE @]
    IN  IF i = NumMethods /\ ~detectLocally(ch.ip).ok
        THEN Reject(called, AllFailedError)
        ELSE called

\* Variant of the loop that calls a failed method a second time before it
\* moves on.
InvokeNext_RetriesOnce(ch) ==
    IF Len(SelectSeq(ch.invoked, LAMBDA i : i = ch.step)) < 2
    THEN Invoke(ch, ch.step)
    ELSE IF ch.step + 1 > NumMethods THEN Reject(ch, AllFailedError)
    ELSE Invoke(ch, ch.step + 1)

\* catch (error) { continue; } and, after the last method, the final throw.
InvokeNext(ch) ==
    IF ch.step + 1 > NumMethods THEN Reject(ch, AllFailedError)
    ELSE Invoke(ch, ch.step + 1)

\* Variants of the loop body: one without the try/catch around the method,
\* one that does not stop at the first result.
AfterMethod_NoCatch(ch, r) ==
    IF r.ok THEN Resolve(ch, r.result) ELSE Reject(ch, r.error)
AfterMethod_NoShortCircuit(ch, r) ==
    IF r.ok /\ ch.step = NumMethods THEN Resolve(ch, r.result) ELSE InvokeNext(ch)

\* The loop body once the awaited method has settled with r:
\* if (result) return result; otherwise the error is caught and the loop
\* continues with the next method.
AfterMethod(ch, r) ==
    IF r.ok THEN Resolve(ch, r.result) ELSE InvokeNext(ch)

\* performDetection(ip) up to its first await.
performDetection(ip) ==
    Invoke([ip |-> ip, step |-> 0, invoked |-> <<>>, fetched |-> <<>>,
            state |-> "running", result |-> NoResult, error |-> "",
            published |-> FALSE], 1)

\* ------------------------------------------------------------------ detect
\* Variants of the cache writes that store nothing.
CacheResult_Skip(c, ip, result, t) == c
CacheDefault_Skip(c, ip, t) == c

\* Variant of the cache write that starts the map afresh with the one entry.
CacheResult_DropsOthers(c, ip, result, t) ==
    [x \in {ip} |-> [result |-> result, timestamp |-> t]]

\* Variant of the cache write that also refreshes the timestamp of every
\* other entry.
CacheResult_TouchesAll(c, ip, result, t) ==
    [x \in DOMAIN c \cup {ip} |->
        IF x = ip THEN [result |-> result, timestamp |-> t]
        ELSE [result |-> c[x].result, timestamp |-> t + 1]]

\* this.cache.set(ip, { result, timestamp: Date.now() }) after the await.
CacheResult(c, ip, result, t) ==
    MapSet(c, ip, [result |-> result, timestamp |-> t])

\* Variant of the catch block that drops the entry of the IP instead of
\* caching the default.
CacheDefault_Evicts(c, ip, t) == MapDelete(c, ip)

\* The catch block of detect: the default result is cached as well.
CacheDefault(c, ip, t) ==
    MapSet(c, ip, [result |-> getDefaultGeoResult, timestamp |-> t])

\* Variant of the cleanup that empties the whole in-flight map.
FinallyDelete_ClearsAll(p, ip, state) == EmptyMap

\* Variant of the cleanup that runs on the success path only.
FinallyDelete_OnSuccessOnly(p, ip, state) ==
    IF state = "resolved" THEN MapDelete(p, ip) ELSE p

\* finally { this.pendingRequests.delete(ip); } runs whatever the state in
\* which the awaited promise settled.
FinallyDelete(p, ip, state) == MapDelete(p, ip)

\* Variant of the cache hit that hands out the default descriptor.
CachedResult_Default(c, ip) == getDefaultGeoResult

\* return cached.result
CachedResult(c, ip) == c[ip].result

\* return pending: the caller's promise follows the in-flight promise.
FollowPending(ch) ==
    IF ch.state = "resolved" THEN Return(ch.result) ELSE Throw(ch.error)

Init ==
    /\ now = 0
    /\ cache = EmptyMap
    /\ pendingRequests = EmptyMap
    /\ chains = <<>>
    /\ callers = [c \in Callers |-> Idle]
    /\ last = Idle
    /\ classified = NotClassified
    /\ env = DefaultEnv
    /\ authInstance = 0
    /\ adapters = <<>>
    /\ authLast = NoAuthCall
    /\ handedOut = [r \in DeploymentRegions |-> 0]
    /\ connectors = [kind \in ConnectorKinds |-> NewConnector]
    /\ connLast = NoConnectorCall
    /\ payments = <<>>
    /\ processing = [p \in Payers |-> NotProcessing]
    /\ payLast = NoPayment
    /\ retry = NoRetry
    /\ fallback = NewFallbackHandler

\* Time passes.
Tick ==
    /\ now < MaxTicks * TickMs
    /\ now' = now + TickMs
    /\ last' = Idle
    /\ UNCHANGED <<cache, pendingRequests, chains, callers>>
    /\ UNCHANGED outsideRouter

\* The request-handling units are interchangeable: a new call is placed in
\* the first idle one.
FirstIdle(c) ==
    /\ callers[c] = Idle
    /\ \A d \in Callers : d < c => callers[d] # Idle

\* detect(ip, {cacheTTL: opt}) from its entry to its first await (or to its
\* return, on a cache hit).
Detect(c, ip, opt) ==
    LET cacheTTL == EffectiveTTL(opt) IN
    /\ FirstIdle(c)
    /\ now' = now
    /\ IF CacheFresh(cache, ip, now, cacheTTL)
       THEN /\ last' = Call(ip, "hit", 0, Return(CachedResult(cache, ip)))
            /\ UNCHANGED <<cache, pendingRequests, chains, callers>>
       ELSE IF HasPending(pendingRequests, ip)
       THEN /\ callers' = [callers EXCEPT ![c] =
                  Call(ip, "joined", pendingRequests[ip], NoOutcome)]
            /\ last' = Idle
            /\ UNCHANGED <<cache, pendingRequests, chains>>
       ELSE /\ Len(chains) < MaxChains
            /\ chains' = Append(chains, performDetection(ip))
            /\ pendingRequests' = MapSet(pendingRequests, ip, Len(chains) + 1)
            /\ callers' = [callers EXCEPT ![c] =
                  Call(ip, "launcher", Len(chains) + 1, NoOutcome)]
            /\ last' = Idle
            /\ cache' = cache
    /\ UNCHANGED outsideRouter

\* The method awaited by chain k settles: a network strategy gets its
\* answer (or its timeout), a shortcut or the local heuristic its value.
MethodSettles(k, resp) ==
    /\ k \in 1..Len(chains)
    /\ chains[k].state = "running"
    /\ chains' = [chains EXCEPT ![k] =
          AfterMethod(@, detectionMethods(@.step, @.ip, resp))]
    /\ last' = Idle
    /\ UNCHANGED <<now, cache, pendingRequests, callers>>
    /\ UNCHANGED outsideRouter

\* The call that launched a chain resumes after await requestPromise:
\* try / catch / finally of detect.
LauncherResumes(c) ==
    LET k == callers[c].promise
        ip == callers[c].ip
        outcome == IF chains[k].state = "resolved"
                   THEN Return(chains[k].result)
                   ELSE Return(getDefaultGeoResult) IN
    /\ callers[c].role = "launcher"
    /\ chains[k].state # "running"
    /\ cache' = IF chains[k].state = "resolved"
                THEN CacheResult(cache, ip, chains[k].result, now)
                ELSE CacheDefault(cache, ip, now)
    /\ pendingRequests' = FinallyDelete(pendingRequests, ip, chains[k].state)
    /\ chains' = [chains EXCEPT ![k].published = TRUE]
    /\ last' = Call(ip, "launcher", k, outcome)
    /\ callers' = [callers EXCEPT ![c] = Idle]
    /\ now' = now
    /\ UNCHANGED outsideRouter

\* A call that was handed the in-flight promise resumes once it has settled.
JoinerResumes(c) ==
    LET k == callers[c].promise
        outcome == FollowPending(chains[k]) IN
    /\ callers[c].role = "joined"
    /\ chains[k].state # "running"
    /\ last' = Call(callers[c].ip, "joined", k, outcome)
    /\ callers' = [callers EXCEPT ![c] = Idle]
    /\ UNCHANGED <<now, cache, pendingRequests, chains>>
    /\ UNCHANGED outsideRouter

\* Some request-handling unit calls detect.
DetectCall == \E c \in Callers, ip \in IPs, opt \in TTLOptions : Detect(c, ip, opt)

\* Some running chain gets the outcome of the method it awaits; only a
\* method that issued a request depends on what the network answers.
ChainAdvances ==
    \E k \in 1..MaxChains, resp \in Responses :
        /\ k <= Len(chains)
        /\ IssuesFetch(chains[k].step, chains[k].ip) \/ resp = NoResponse
        /\ MethodSettles(k, resp)

LauncherResume == \E c \in Callers : LauncherResumes(c)

JoinerResume == \E c \in Callers : JoinerResumes(c)

Next ==
    \/ Tick
    \/ DetectCall
    \/ ChainAdvances
    \/ LauncherResume
    \/ JoinerResume

Spec == Init /\ [][Next]_vars

\* ------------------------------------------- private and loopback addresses
\* The router serving addresses of every kind the chain tells apart: a
\* private one, the loopback and empty ones, and a public one; a lookup
\* service either reports a country or fails.  No time passes.
LocalIPs == {"10.0.0.5", "127.0.0.1", "::1", "", "203.0.113.5"}

LoopbackIPs == {"127.0.0.1", "::1", ""}

Answer(cc) ==
    [fetch |-> "ok", ok2xx |-> TRUE, vendorError |-> FALSE, cc |-> cc, hasName |-> TRUE]

LocalResponses == {Answer("CN"), NoResponse}

DetectLocalCall == \E c \in Callers, ip \in LocalIPs : Detect(c, ip, 0)

LocalChainAdvances ==
    \E k \in 1..MaxChains, resp \in LocalResponses :
        /\ k <= Len(chains)
        /\ IssuesFetch(chains[k].step, chains[k].ip) \/ resp = NoResponse
        /\ MethodSettles(k, resp)

NextLocal ==
    \/ DetectLocalCall
    \/ LocalChainAdvances
    \/ LauncherResume
    \/ JoinerResume

SpecLocal == Init /\ [][NextLocal]_vars

\* ------------------------------------------------- countries and regions
\* The router with lookup services that report countries of every region:
\* the four fixed markets, European ones and an unknown one.  What a service
\* reports depends on the address asked about; a call with a non-string ip
\* brings in the default of detect's catch block.  No time passes.
RegionIPs == {"8.8.8.8", "203.0.113.5", Undefined}

\* The countries in which the services may locate an address.
ReportedFor(ip) ==
    CASE ip = "8.8.8.8" -> {"US", "CN", "SG", "GB", "XX"}
      [] ip = "203.0.113.5" -> {"DE", "IN", "ZZ"}
      [] OTHER -> {}

RegionCodes == UNION {ReportedFor(ip) : ip \in RegionIPs}

RegionResponses == {Answer(cc) : cc \in RegionCodes} \cup {NoResponse}

DetectRegionCall == \E c \in Callers, ip \in RegionIPs : Detect(c, ip, 0)

RegionChainAdvances ==
    \E k \in 1..MaxChains, resp \in RegionResponses :
        /\ k <= Len(chains)
        /\ IssuesFetch(chains[k].step, chains[k].ip) \/ resp = NoResponse
        /\ resp = NoResponse \/ resp.cc \in ReportedFor(chains[k].ip)
        /\ MethodSettles(k, resp)

NextRegions ==
    \/ DetectRegionCall
    \/ RegionChainAdvances
    \/ LauncherResume
    \/ JoinerResume

SpecRegions == Init /\ [][NextRegions]_vars

\* ------------------------------------------------------ attempts in time
\* One resolution of a public address followed on the clock, with lookup
\* services that all fail.  A service sends its response headers after
\* headersAfter ms (or never, for a request that runs into the timeout) and
\* has delivered the body bodyAfter ms later.
TimedIPs == {"8.8.8.8"}

HeaderDelays == {100, REQUEST_TIMEOUT - 1}

BodyDelays == {0, 100, 3 * REQUEST_TIMEOUT}

\* The answers with which each of the three network strategies fails.
FailingResponses ==
    {r \in Responses : \A i \in 1..(NumMethods - 1) : ~detectionMethods(i, "8.8.8.8", r).ok}

\* How long a network strategy takes from issuing its request to settling.
\* fetchWithTimeout aborts the request after timeout ms and clears the timer
\* as soon as fetch has settled; a strategy throws on a non-2xx status
\* without reading the body and otherwise awaits response.json(), on which
\* no timer runs.
AttemptDuration(resp, headersAfter, bodyAfter, timeout) ==
    IF resp.fetch = "timeout" THEN timeout
    ELSE IF resp.fetch = "network" THEN headersAfter
    ELSE IF ~resp.ok2xx THEN headersAfter
    ELSE headersAfter + bodyAfter

\* The method awaited by chain k settles, after the time it took.
AttemptEnds(k, resp, headersAfter, bodyAfter) ==
    /\ k \in 1..Len(chains)
    /\ chains[k].state = "running"
    /\ chains' = [chains EXCEPT ![k] =
          AfterMethod(@, detectionMethods(@.step, @.ip, resp))]
    /\ now' = now + (IF IssuesFetch(chains[k].step, chains[k].ip)
                     THEN AttemptDuration(resp, headersAfter, bodyAfter, REQUEST_TIMEOUT)
                     ELSE 0)
    /\ last' = Idle
    /\ UNCHANGED <<cache, pendingRequests, callers>>
    /\ UNCHANGED outsideRouter

DetectTimedCall == \E c \in Callers, ip \in TimedIPs : Detect(c, ip, 0)

TimedChainAdvances ==
    \E k \in 1..MaxChains, resp \in FailingResponses,
       headersAfter \in HeaderDelays, bodyAfter \in BodyDelays :
        /\ k <= Len(chains)
        /\ IssuesFetch(chains[k].step, chains[k].ip) \/ resp = NoResponse
        /\ AttemptEnds(k, resp, headersAfter, bodyAfter)

NextTimed ==
    \/ DetectTimedCall
    \/ TimedChainAdvances
    \/ LauncherResume
    \/ JoinerResume

SpecTimed == Init /\ [][NextTimed]_vars

\* ------------------------------------------------------ the retry option
\* detect(ip, options) with a caller that passes maxRetries.  detect reads
\* options.timeout and options.cacheTTL; neither it nor performDetection
\* reads options.maxRetries or MAX_RETRIES.
MAX_RETRIES == 2

RetryIPs == {"8.8.8.8", "203.0.113.5"}

\* 0 stands for an option left out.
RetryOptions == [timeout : {0}, maxRetries : {0, 1, MAX_RETRIES, 5}, cacheTTL : {0}]

DetectWithOptions(c, ip, options) == Detect(c, ip, options.cacheTTL)

DetectRetryCall ==
    \E c \in Callers, ip \in RetryIPs, options \in RetryOptions :
        DetectWithOptions(c, ip, options)

NextRetry ==
    \/ DetectRetryCall
    \/ ChainAdvances
    \/ LauncherResume
    \/ JoinerResume

SpecRetry == Init /\ [][NextRetry]_vars

\* ------------------------------------------------------ shared descriptors
\* detect caches the very object it returns, and returns the cached object
\* itself on a hit: the launching call, the joined calls, the cache and
\* every later hit hold one reference.  GeoResult has no readonly field and
\* nothing freezes or copies the object, so a caller can write to it.  The
\* object produced by chain k is chains[k].result; with no time passing the
\* cache entry of the chain's address, once written, is that object.
SharedIPs == {"8.8.8.8", "203.0.113.5"}

SharedResponses == {Answer("DE"), NoResponse}

\* A caller that was handed the descriptor of chain k assigns to a field of
\* it (result.currency = "XXX").
CallerWrites(k) ==
    /\ k \in 1..Len(chains)
    /\ chains[k].state = "resolved"
    /\ chains[k].published
    /\ chains[k].result.currency # "XXX"
    /\ chains' = [chains EXCEPT ![k].result.currency = "XXX"]
    /\ cache' = [cache EXCEPT ![chains[k].ip].result = chains'[k].result]
    /\ last' = Idle
    /\ UNCHANGED <<now, pendingRequests, callers>>
    /\ UNCHANGED outsideRouter

DetectSharedCall == \E c \in Callers, ip \in SharedIPs : Detect(c, ip, 0)

SharedChainAdvances ==
    \E k \in 1..MaxChains, resp \in SharedResponses :
        /\ k <= Len(chains)
        /\ IssuesFetch(chains[k].step, chains[k].ip) \/ resp = NoResponse
        /\ MethodSettles(k, resp)

CallerWrite == \E k \in 1..MaxChains : CallerWrites(k)

NextShared ==
    \/ DetectSharedCall
    \/ SharedChainAdvances
    \/ LauncherResume
    \/ JoinerResume
    \/ CallerWrite

SpecShared == Init /\ [][NextShared]_vars

\* ---------------------------------------------------------- clearCache
\* The router with its two operational methods.  No time passes, so an
\* address is resolved anew only after the cache has been cleared.
ClearIPs == {"8.8.8.8", "203.0.113.5"}

\* Variant of clearCache that empties the in-flight map as well.
clearCache_DropsPending(c, p) == [cache |-> EmptyMap, pendingRequests |-> EmptyMap]

\* clearCache(): this.cache.clear(); nothing else is touched.
clearCache(c, p) == [cache |-> EmptyMap, pendingRequests |-> p]

\* getCacheStats(): the size of the cache and the entries' ips and
\* timestamps.
getCacheStats(c) ==
    [size |-> Cardinality(DOMAIN c),
     entries |-> {[ip |-> ip, timestamp |-> c[ip].timestamp] : ip \in DOMAIN c}]

ClearCache ==
    /\ cache' = clearCache(cache, pendingRequests).cache
    /\ pendingRequests' = clearCache(cache, pendingRequests).pendingRequests
    /\ last' = Idle
    /\ UNCHANGED <<now, chains, callers>>
    /\ UNCHANGED outsideRouter

DetectClearCall == \E c \in Callers, ip \in ClearIPs : Detect(c, ip, 0)

ClearChainAdvances ==
    \E k \in 1..MaxChains, resp \in LocalResponses :
        /\ k <= Len(chains)
        /\ IssuesFetch(chains[k].step, chains[k].ip) \/ resp = NoResponse
        /\ MethodSettles(k, resp)

NextClear ==
    \/ DetectClearCall
    \/ ClearChainAdvances
    \/ LauncherResume
    \/ JoinerResume
    \/ ClearCache

SpecClear == Init /\ [][NextClear]_vars

\* ---------------------------------------------------- the adapter factory
\* getAuth(region): synchronous, one event-loop slice.
GetAuth(region) ==
    LET targetRegion == TargetRegion(region, env)
        construct == NeedsAdapter(authInstance) IN
    /\ construct => Len(adapters) < MaxAdapters
    /\ adapters' = IF construct
                   THEN Append(adapters, createAuthAdapter(targetRegion, env))
                   ELSE adapters
    /\ authInstance' = IF construct THEN Len(adapters) + 1 ELSE authInstance
    /\ authLast' = [op |-> "getAuth", region |-> region,
                    target |-> targetRegion, returned |-> authInstance',
                    constructed |-> construct,
                    outcome |-> [kind |-> "return", error |-> ""]]
    /\ handedOut' = IF handedOut[targetRegion] = 0
                    THEN [handedOut EXCEPT ![targetRegion] = authInstance']
                    ELSE handedOut
    /\ env' = env
    /\ UNCHANGED <<routerVars, classified, connVars, payVars, utilVars>>

\* The dynamic import started by the constructor of adapter i settles and
\* its then-callback runs createClient(url || '', key || ''), which throws
\* when the URL is empty; nothing handles the rejection and this.supabase
\* stays undefined.
ImportSettles(i) ==
    /\ i \in 1..Len(adapters)
    /\ adapters[i].supabase = "importing"
    /\ adapters' = [adapters EXCEPT ![i].supabase =
          IF env.supabaseConfigured THEN "client" ELSE "undefined"]
    /\ authLast' = NoAuthCall
    /\ UNCHANGED <<env, authInstance, handedOut>>
    /\ UNCHANGED <<routerVars, classified, connVars, payVars, utilVars>>

\* adapter.signInWithEmail(email, password) on the adapter getAuth handed
\* out, up to its first await.
SignInWithEmail(i) ==
    /\ i \in 1..Len(adapters)
    /\ authLast' = [op |-> "signInWithEmail", region |-> adapters[i].region,
                    target |-> adapters[i].region, returned |-> i,
                    constructed |-> FALSE,
                    outcome |-> MethodOutcome(adapters[i])]
    /\ UNCHANGED <<env, authInstance, adapters, handedOut>>
    /\ UNCHANGED <<routerVars, classified, connVars, payVars, utilVars>>

\* A process starts in some environment.
InitAuth ==
    /\ now = 0
    /\ cache = EmptyMap
    /\ pendingRequests = EmptyMap
    /\ chains = <<>>
    /\ callers = [c \in Callers |-> Idle]
    /\ last = Idle
    /\ classified = NotClassified
    /\ env \in Envs
    /\ authInstance = 0
    /\ adapters = <<>>
    /\ authLast = NoAuthCall
    /\ handedOut = [r \in DeploymentRegions |-> 0]
    /\ connectors = [kind \in ConnectorKinds |-> NewConnector]
    /\ connLast = NoConnectorCall
    /\ payments = <<>>
    /\ processing = [p \in Payers |-> NotProcessing]
    /\ payLast = NoPayment
    /\ retry = NoRetry
    /\ fallback = NewFallbackHandler

NextAuth ==
    \/ \E region \in DeploymentRegions \cup {NoRegion} : GetAuth(region)
    \/ \E i \in 1..MaxAdapters : ImportSettles(i)
    \/ \E i \in 1..MaxAdapters : SignInWithEmail(i)

SpecAuth == InitAuth /\ [][NextAuth]_vars

\* ------------------------------------------------- the connector methods
\* await connector.initialize(config): no await inside, one slice.
Initialize(kind, sdk) ==
    LET conn == connectors[kind]
        made == sdk = "client" IN
    /\ made => conn.inits < MaxInits
    /\ connectors' = [connectors EXCEPT ![kind] =
          [conn EXCEPT !.client = initialize(conn, sdk),
                       !.inits = IF made THEN @ + 1 ELSE @,
                       !.live = IF made THEN TRUE ELSE @,
                       !.failed = IF made THEN @ ELSE TRUE]]
    /\ connLast' = [kind |-> kind, op |-> "initialize",
                    outcome |-> IF made THEN ConnReturn(0) ELSE ConnThrow(SdkError)]
    /\ UNCHANGED <<routerVars, classified, authVars, payVars, utilVars>>

\* connector.getClient()
GetClient(kind) ==
    /\ connLast' = [kind |-> kind, op |-> "getClient",
                    outcome |-> getClient(kind, connectors[kind])]
    /\ UNCHANGED connectors
    /\ UNCHANGED <<routerVars, classified, authVars, payVars, utilVars>>

\* await connector.close()
Close(kind) ==
    /\ connectors' = [connectors EXCEPT ![kind].client = 0,
                                        ![kind].live = FALSE,
                                        ![kind].closed = TRUE]
    /\ connLast' = [kind |-> kind, op |-> "close", outcome |-> ConnReturn(0)]
    /\ UNCHANGED <<routerVars, classified, authVars, payVars, utilVars>>

\* connector.testConnection() up to its await: false at once without a
\* client, otherwise the health query is sent.
TestStarts(kind) ==
    LET conn == connectors[kind] IN
    /\ ~conn.testing
    /\ IF conn.client = 0
       THEN /\ connLast' = [kind |-> kind, op |-> "testConnection",
                            outcome |-> ConnReturn(FALSE)]
            /\ connectors' = [connectors EXCEPT ![kind].testFailed = TRUE]
       ELSE /\ connLast' = NoConnectorCall
            /\ connectors' = [connectors EXCEPT ![kind].testing = TRUE]
    /\ UNCHANGED <<routerVars, classified, authVars, payVars, utilVars>>

\* The health query settles and testConnection returns.
TestSettles(kind, query) ==
    LET conn == connectors[kind]
        outcome == testConnection(kind, query) IN
    /\ conn.testing
    /\ connLast' = [kind |-> kind, op |-> "testConnection", outcome |-> outcome]
    /\ connectors' = [connectors EXCEPT
          ![kind].testing = FALSE,
          ![kind].testFailed = @ \/ outcome # ConnReturn(TRUE)]
    /\ UNCHANGED <<routerVars, classified, authVars, payVars, utilVars>>

NextConnector ==
    \/ \E kind \in ConnectorKinds, sdk \in SdkOutcomes : Initialize(kind, sdk)
    \/ \E kind \in ConnectorKinds : GetClient(kind)
    \/ \E kind \in ConnectorKinds : Close(kind)
    \/ \E kind \in ConnectorKinds : TestStarts(kind)
    \/ \E kind \in ConnectorKinds :
          \E query \in QueryOutcomes(kind) : TestSettles(kind, query)

SpecConnector == Init /\ [][NextConnector]_vars

\* --------------------------------------------------------- processPayment
\* processPayment(order, paymentMethod) up to await this.repository.save.
ProcessPayment(p, order, paymentMethod) ==
    /\ processing[p].pc = "idle"
    /\ processing' = [processing EXCEPT ![p] =
          [NotProcessing EXCEPT !.pc = "saving", !.order = order,
                                !.paymentMethod = paymentMethod]]
    /\ payLast' = NoPayment
    /\ UNCHANGED payments
    /\ UNCHANGED <<routerVars, classified, authVars, connVars, utilVars>>

\* repository.save settles: the record exists with status pending and
\* doProcessPayment is called, or the catch block rethrows.
SaveSettles(p, repo) ==
    /\ processing[p].pc = "saving"
    /\ IF repo = "ok"
       THEN /\ Len(payments) < MaxPayments
            /\ payments' = Append(payments,
                  NewPaymentRecord(processing[p].order, processing[p].paymentMethod))
            /\ processing' = [processing EXCEPT ![p].pc = "processing",
                                                ![p].record = Len(payments) + 1]
            /\ payLast' = NoPayment
       ELSE /\ payments' = payments
            /\ processing' = [processing EXCEPT ![p] = NotProcessing]
            /\ payLast' = [payer |-> p, kind |-> "throw", record |-> 0,
                           success |-> FALSE]
    /\ UNCHANGED <<routerVars, classified, authVars, connVars, utilVars>>

\* doProcessPayment settles: on a result repository.updateStatus is called
\* with the status for it; an exception goes to the catch block, which
\* logs it and rethrows.
ProviderSettles(p, provider) ==
    /\ processing[p].pc = "processing"
    /\ IF provider = "throws"
       THEN /\ processing' = [processing EXCEPT ![p] = NotProcessing]
            /\ payLast' = [payer |-> p, kind |-> "throw",
                           record |-> processing[p].record, success |-> FALSE]
       ELSE /\ processing' = [processing EXCEPT ![p].pc = "updating",
                                                ![p].success = (provider = "success")]
            /\ payLast' = NoPayment
    /\ UNCHANGED payments
    /\ UNCHANGED <<routerVars, classified, authVars, connVars, utilVars>>

\* repository.updateStatus settles: processPayment returns the result, or
\* the catch block rethrows.
UpdateSettles(p, repo) ==
    LET id == processing[p].record IN
    /\ processing[p].pc = "updating"
    /\ payments' = IF repo = "ok"
                   THEN [payments EXCEPT ![id].status = StatusFor(processing[p].success)]
                   ELSE payments
    /\ payLast' = [payer |-> p, kind |-> IF repo = "ok" THEN "return" ELSE "throw",
                   record |-> id, success |-> processing[p].success]
    /\ processing' = [processing EXCEPT ![p] = NotProcessing]
    /\ UNCHANGED <<routerVars, classified, authVars, connVars, utilVars>>

NextPayment ==
    \/ \E p \in Payers, order \in Orders, paymentMethod \in PaymentMethods :
          ProcessPayment(p, order, paymentMethod)
    \/ \E p \in Payers, repo \in RepositoryOutcomes : SaveSettles(p, repo)
    \/ \E p \in Payers, provider \in ProviderOutcomes : ProviderSettles(p, provider)
    \/ \E p \in Payers, repo \in RepositoryOutcomes : UpdateSettles(p, repo)

SpecPayment == Init /\ [][NextPayment]_vars

\* -------------------------------------------------------------- withRetry
\* withRetry(fn, maxRetries, delay) up to the first await fn().
WithRetry(maxRetries, delay) ==
    /\ retry.pc \in {"idle", "returned", "thrown"}
    /\ retry' = [NoRetry EXCEPT
          !.pc = "calling",
          !.maxRetries = IF maxRetries = Omitted THEN DefaultMaxRetries ELSE maxRetries,
          !.delay = delay,
          !.calls = 1]
    /\ fallback' = fallback
    /\ UNCHANGED <<routerVars, classified, authVars, connVars, payVars>>

\* fn() resolves: withRetry returns the value.
FnResolves ==
    /\ retry.pc = "calling"
    /\ retry' = [retry EXCEPT !.pc = "returned", !.returned = RetryValue]
    /\ fallback' = fallback
    /\ UNCHANGED <<routerVars, classified, authVars, connVars, payVars>>

\* fn() rejects with error: the catch block classifies it and either
\* throws the classified error or starts the timer.
FnRejects(error) ==
    LET classifiedError == classifyError(error) IN
    /\ retry.pc = "calling"
    /\ retry' = IF GivesUp(retry.attempt, retry.maxRetries, classifiedError)
                THEN [retry EXCEPT !.pc = "thrown", !.lastError = error,
                                   !.thrown = classifiedError]
                ELSE [retry EXCEPT !.pc = "waiting", !.lastError = error]
    /\ fallback' = fallback
    /\ UNCHANGED <<routerVars, classified, authVars, connVars, payVars>>

\* The timer fires: delay *= 2, attempt++, and fn is called again.
RetryTimerFires ==
    /\ retry.pc = "waiting"
    /\ retry' = [retry EXCEPT !.pc = "calling", !.delay = @ * 2,
                              !.attempt = @ + 1, !.calls = @ + 1]
    /\ fallback' = fallback
    /\ UNCHANGED <<routerVars, classified, authVars, connVars, payVars>>

NextRetryHelper ==
    \/ \E maxRetries \in MaxRetriesArgs : WithRetry(maxRetries, DefaultDelay)
    \/ FnResolves
    \/ \E error \in RetryErrors : FnRejects(error)
    \/ RetryTimerFires

SpecWithRetry == Init /\ [][NextRetryHelper]_vars

\* -------------------------------------------------------- FallbackHandler
\* addFallback(fn)
AddFallback(fn) ==
    /\ Len(fallback.fallbacks) < MaxFallbacks
    /\ fallback' = [fallback EXCEPT !.fallbacks = Append(@, fn)]
    /\ retry' = retry
    /\ UNCHANGED <<routerVars, classified, authVars, connVars, payVars>>

\* executeWithFallbacks() up to its first await: with no fallback
\* registered the loop body never runs and the final throw is reached.
ExecuteWithFallbacks ==
    /\ fallback.pc \in {"idle", "returned", "thrown"}
    /\ fallback' =
          IF fallback.fallbacks = <<>>
          THEN [fallback EXCEPT !.pc = "thrown", !.index = 0, !.invoked = <<>>,
                                !.errors = <<>>, !.returned = <<>>,
                                !.thrown = AllFallbacksFailed(<<>>)]
          ELSE [fallback EXCEPT !.pc = "running", !.index = 1, !.invoked = <<1>>,
                                !.errors = <<>>, !.returned = <<>>,
                                !.thrown = NoFallbackError]
    /\ retry' = retry
    /\ UNCHANGED <<routerVars, classified, authVars, connVars, payVars>>

\* The awaited fallback settles.
FallbackSettles(ok) ==
    /\ fallback.pc = "running"
    /\ fallback' = afterFallback(fallback, ok)
    /\ retry' = retry
    /\ UNCHANGED <<routerVars, classified, authVars, connVars, payVars>>

NextFallback ==
    \/ \E fn \in FallbackFns : AddFallback(fn)
    \/ ExecuteWithFallbacks
    \/ \E ok \in BOOLEAN : FallbackSettles(ok)

SpecFallback == Init /\ [][NextFallback]_vars

\* ------------------------------------------------------- the classifier
\* The classifier called on its own, with country codes of every kind: the
\* four fixed markets, the European list, and codes that are unknown, empty,
\* lower-case, padded, too long or not a string at all.
MalformedCodes ==
    {"", "cn", "us", "de", "Gb", "ZZ", "XX", "CHN", "USA", "C", " CN", "CN ",
     "U S", "00", "??", "EU", "UK", Undefined}

ClassifierInputs == {"CN", "US", "IN", "SG"} \cup EUROPEAN_COUNTRIES \cup MalformedCodes

\* getRegionConfig(countryCode), the exported classifier.
ClassifyCountry(countryCode) ==
    /\ classified' = [by |-> "getRegionConfig",
                      countryCode |-> countryCode,
                      descriptor |-> getRegionConfig(countryCode)]
    /\ UNCHANGED <<routerVars, authVars, connVars, payVars, utilVars>>

\* buildGeoResult(countryCode), the router's own classifier.
BuildsGeoResult(countryCode) ==
    /\ classified' = [by |-> "buildGeoResult",
                      countryCode |-> countryCode,
                      descriptor |-> buildGeoResult(countryCode)]
    /\ UNCHANGED <<routerVars, authVars, connVars, payVars, utilVars>>

NextClassifier ==
    \/ \E countryCode \in ClassifierInputs : ClassifyCountry(countryCode)
    \/ \E countryCode \in ClassifierInputs : BuildsGeoResult(countryCode)

SpecClassifier == Init /\ [][NextClassifier]_vars

\* ============================================================ properties
ChainIds == 1..Len(chains)

\* The chain executions for ip that have not settled yet.
Running(ip) == {k \in ChainIds : chains[k].ip = ip /\ chains[k].state = "running"}

\* The chain executions for ip whose launching call has not resumed yet.
Unpublished(ip) == {k \in ChainIds : chains[k].ip = ip /\ ~chains[k].published}

\* Every network strategy of the chain failed: the chain ended with the
\* local heuristic's result or with the final throw.
AllNetworkFailed(ch) ==
    /\ ch.state # "running"
    /\ ch.state = "rejected" \/ ch.step = NumMethods

\* What the launching call makes of a settled chain.
Published(ch) == IF ch.state = "resolved" THEN ch.result ELSE getDefaultGeoResult

\* The last chain for ip whose outcome was published is k.
LastPublished(ip, k) ==
    /\ k \in ChainIds
    /\ chains[k].ip = ip
    /\ chains[k].published
    /\ \A j \in ChainIds : (chains[j].ip = ip /\ chains[j].published) => j <= k

Complete(d) ==
    /\ d.region \in {"china", "usa", "europe", "india", "singapore", "other"}
    /\ d.currency # ""
    /\ d.database # ""
    /\ d.deployment # ""

\* C1: for every IP at most one chain execution is in flight at any instant,
\* and no two detect calls are both waiting as the launcher of a chain for
\* the same IP.
C1_OneChainPerIP ==
    /\ \A ip \in IPs : Cardinality(Running(ip)) <= 1
    /\ \A c1, c2 \in Callers :
          (/\ c1 # c2
           /\ callers[c1].role = "launcher"
           /\ callers[c2].role = "launcher")
          => callers[c1].ip # callers[c2].ip

\* Two calls for one IP are in flight together on one running chain.
C1_Witness ==
    \E c1, c2 \in Callers :
        /\ callers[c1].role = "launcher"
        /\ callers[c2].role = "joined"
        /\ callers[c1].ip = callers[c2].ip
        /\ callers[c1].promise = callers[c2].promise
        /\ Running(callers[c1].ip) = {callers[c1].promise}

\* C2: concurrent detect calls for one IP share one chain execution, and
\* all of them (the launcher and every call that joined the in-flight
\* promise) receive an equal descriptor: each receives the descriptor the
\* launching call receives and caches.
C2_CoalescedEqual ==
    /\ \A c1, c2 \in Callers :
          (callers[c1] # Idle /\ callers[c2] # Idle /\ callers[c1].ip = callers[c2].ip)
          => callers[c1].promise = callers[c2].promise
    /\ last.role \in {"launcher", "joined"}
          => last.outcome = Return(Published(chains[last.promise]))

\* C3: detect never throws: every call that is over, whether it hit the
\* cache, launched the chain or joined the in-flight promise, has returned
\* a complete descriptor.
C3_NeverThrows ==
    last # Idle => (last.outcome.kind = "return" /\ Complete(last.outcome.result))

\* C4: when every network strategy failed for an IP the fallback is cached
\* at the moment the launching call resumes; a later detect call for that
\* IP made while the entry is younger than the call's TTL starts no chain
\* and issues no request, and a call that does start the next chain finds
\* the entry at least one TTL old.
C4_FallbackCached ==
    [][/\ \A c \in Callers :
            (LauncherResumes(c) /\ AllNetworkFailed(chains[callers[c].promise]))
            => /\ MapHas(cache', callers[c].ip)
               /\ cache'[callers[c].ip] =
                     [result |-> Published(chains[callers[c].promise]),
                      timestamp |-> now]
       /\ \A c \in Callers, ip \in IPs, opt \in TTLOptions, k \in ChainIds :
            (/\ Detect(c, ip, opt)
             /\ LastPublished(ip, k)
             /\ AllNetworkFailed(chains[k]))
            => /\ MapHas(cache, ip)
               /\ cache[ip].result = Published(chains[k])
               /\ now - cache[ip].timestamp < EffectiveTTL(opt)
                     => chains' = chains
               /\ chains' # chains
                     => now - cache[ip].timestamp >= EffectiveTTL(opt)
      ]_vars

\* A chain for a public IP failed on all three requests and its fallback
\* was cached; one TTL later the next chain for that IP has started.
C4_Witness ==
    \E j, k \in ChainIds :
        /\ j < k
        /\ chains[j].ip = "8.8.8.8" /\ chains[k].ip = "8.8.8.8"
        /\ AllNetworkFailed(chains[j]) /\ chains[j].published
        /\ Len(chains[j].fetched) = NumMethods - 1
        /\ chains[k].state = "running"
        /\ MapHas(cache, "8.8.8.8")
        /\ cache["8.8.8.8"].result = Published(chains[j])
        /\ now - cache["8.8.8.8"].timestamp >= CACHE_TTL

\* C5 as stated: after a resolution of ip in which no network strategy
\* produced a country code, the next detect(ip) call runs the chain anew.
C5_FailedNotCached ==
    [][\A c \in Callers, ip \in IPs, opt \in TTLOptions, k \in ChainIds :
          (/\ Detect(c, ip, opt)
           /\ LastPublished(ip, k)
           /\ AllNetworkFailed(chains[k])
           /\ Unpublished(ip) = {})
          => /\ Len(chains') = Len(chains) + 1
             /\ callers'[c].role = "launcher"
      ]_vars

\* C5 (amended): a failed resolution is cached like any other.  The next
\* detect(ip) call after it is served the cached fallback descriptor when
\* the entry is younger than the call's TTL, and runs the chain anew exactly
\* when the entry is at least that old.
C5_FailedIsCached ==
    [][\A c \in Callers, ip \in IPs, opt \in TTLOptions, k \in ChainIds :
          (/\ Detect(c, ip, opt)
           /\ LastPublished(ip, k)
           /\ AllNetworkFailed(chains[k])
           /\ Unpublished(ip) = {})
          => /\ MapHas(cache, ip)
             /\ IF now - cache[ip].timestamp < EffectiveTTL(opt)
                THEN /\ last' = Call(ip, "hit", 0, Return(Published(chains[k])))
                     /\ callers' = callers
                     /\ chains' = chains
                ELSE /\ Len(chains') = Len(chains) + 1
                     /\ callers'[c].role = "launcher"
      ]_vars

\* A call for a public IP was served the cached local fallback of a
\* resolution whose three requests all failed.
C5_Witness ==
    \E k \in ChainIds :
        /\ last.role = "hit"
        /\ last.ip = "8.8.8.8"
        /\ LastPublished("8.8.8.8", k)
        /\ AllNetworkFailed(chains[k])
        /\ Len(chains[k].fetched) = NumMethods - 1
        /\ last.outcome = Return(Published(chains[k]))

\* C6: with the default TTL, a detect(ip) call that finds an entry older
\* than the TTL does what it would do were the entry absent (it launches a
\* fresh chain execution, or joins the one already in flight for ip), and a
\* call that finds an entry younger than the TTL launches none.
C6_DefaultTTL ==
    [][\A c \in Callers, ip \in IPs :
          (Detect(c, ip, 0) /\ MapHas(cache, ip))
          => /\ now - cache[ip].timestamp > CACHE_TTL
                => IF Unpublished(ip) = {}
                   THEN /\ Len(chains') = Len(chains) + 1
                        /\ chains'[Len(chains')].ip = ip
                        /\ chains'[Len(chains')].state = "running"
                        /\ callers'[c].role = "launcher"
                        /\ callers'[c].promise = Len(chains')
                   ELSE /\ chains' = chains
                        /\ callers'[c].role = "joined"
                        /\ callers'[c].promise \in Unpublished(ip)
             /\ now - cache[ip].timestamp < CACHE_TTL
                => /\ chains' = chains
                   /\ callers' = callers
                   /\ last'.role = "hit"
      ]_vars

\* The entry of an IP is older than the default TTL and a second chain
\* execution for that IP, launched from the stale entry, is running (the
\* other TTL a call may pass is longer than the clock has run, so that the
\* launching call used the default).
C6_Witness ==
    \E j, k \in ChainIds, c \in Callers :
        /\ j < k
        /\ callers[c].role = "launcher"
        /\ callers[c].promise = k
        /\ now < 3 * CACHE_TTL
        /\ chains[j].ip = chains[k].ip
        /\ chains[j].published
        /\ chains[k].state = "running"
        /\ MapHas(cache, chains[k].ip)
        /\ now - cache[chains[k].ip].timestamp > CACHE_TTL

\* C7: a detect(ip) call made while the cache holds an entry for ip that is
\* fresh under the call's TTL returns exactly the cached descriptor, calls
\* no detection method and leaves the cache and the in-flight map unchanged.
C7_CacheHit ==
    [][\A c \in Callers, ip \in IPs, opt \in TTLOptions :
          (/\ Detect(c, ip, opt)
           /\ MapHas(cache, ip)
           /\ now - cache[ip].timestamp < EffectiveTTL(opt))
          => /\ last' = Call(ip, "hit", 0, Return(cache[ip].result))
             /\ chains' = chains
             /\ cache' = cache
             /\ pendingRequests' = pendingRequests
      ]_vars

\* A call was served the cached descriptor of a country that a lookup
\* service had reported.
C7_Witness ==
    /\ last.role = "hit"
    /\ MapHas(cache, last.ip)
    /\ last.outcome = Return(cache[last.ip].result)
    /\ last.outcome.result.countryCode = "DE"

\* C8 as stated: in every state in which no chain execution is running for
\* an IP the in-flight map has no entry for it.
C8_EntryOnlyWhileRunning ==
    \A ip \in IPs : MapHas(pendingRequests, ip) => Running(ip) # {}

\* C8 (amended): the in-flight entry of an IP exists exactly from the launch
\* of a chain execution until the call that launched it has resumed after
\* the chain settled, with success or with failure, and it designates that
\* execution.
C8_EntryUntilPublished ==
    \A ip \in IPs :
        /\ MapHas(pendingRequests, ip) <=> Unpublished(ip) # {}
        /\ MapHas(pendingRequests, ip) => Unpublished(ip) = {pendingRequests[ip]}

\* A resolution has failed with the final throw, another has succeeded; the
\* launching calls have resumed and the in-flight map is empty.
C8_Witness ==
    /\ DOMAIN pendingRequests = {}
    /\ \E j, k \in ChainIds :
          /\ chains[j].state = "rejected" /\ chains[j].published
          /\ chains[k].state = "resolved" /\ chains[k].published

\* C9: within one chain execution the methods are called in the order
\* primary, secondary, tertiary, local heuristic; a method is called only
\* once the one before it has failed, and once a method has produced a result
\* the chain ends with that result and calls no further method.
C9_ChainOrder ==
    /\ [](\A k \in ChainIds :
            /\ chains[k].invoked = [i \in 1..Len(chains[k].invoked) |-> i]
            /\ Len(chains[k].invoked) <= NumMethods
            /\ chains[k].state = "resolved" => chains[k].step = Len(chains[k].invoked))
    /\ [][\A k \in ChainIds, resp \in Responses :
            MethodSettles(k, resp)
            => LET r == detectionMethods(chains[k].step, chains[k].ip, resp) IN
               IF r.ok
               THEN /\ chains'[k].state = "resolved"
                    /\ chains'[k].result = r.result
                    /\ chains'[k].invoked = chains[k].invoked
                    /\ chains'[k].fetched = chains[k].fetched
               ELSE /\ chains'[k].state # "resolved"
                    /\ chains[k].step < NumMethods
                         => chains'[k].invoked = Append(chains[k].invoked, chains[k].step + 1)
         ]_vars

\* The secondary service produced the result of a chain: the primary had
\* been tried before it and the tertiary was never called.
C9_Witness ==
    \E k \in ChainIds :
        /\ chains[k].state = "resolved"
        /\ chains[k].invoked = <<1, 2>>
        /\ chains[k].fetched = <<1, 2>>
        /\ chains[k].result.countryCode = "DE"

\* C10: a network strategy that fails (non-2xx status, vendor error
\* indicator, missing country field, timeout or network error) fails alone:
\* the chain goes on with the next method, and no error thrown inside a
\* detection method reaches a caller of detect.
C10_StrategyFailureContained ==
    /\ [](last.outcome.kind = "throw" => last.outcome.error = AllFailedError)
    /\ [](\A k \in ChainIds : chains[k].error \in {"", AllFailedError})
    /\ [][\A k \in ChainIds, resp \in Responses :
            (/\ MethodSettles(k, resp)
             /\ IssuesFetch(chains[k].step, chains[k].ip)
             /\ ~detectionMethods(chains[k].step, chains[k].ip, resp).ok)
            => /\ chains'[k].invoked = Append(chains[k].invoked, chains[k].step + 1)
               /\ chains'[k].step = chains[k].step + 1
               /\ chains'[k].state = "running"
               /\ chains'[k].error = ""
         ]_vars

\* The primary service failed, the chain went on to the secondary, which
\* produced the result a caller received.
C10_Witness ==
    /\ last.role \in {"launcher", "joined"}
    /\ chains[last.promise].invoked = <<1, 2>>
    /\ last.outcome = Return(buildGeoResult("DE"))

\* The two descriptors the local heuristic chooses between, written out.
PrivateIPDefault ==
    [region |-> "china", countryCode |-> "CN", currency |-> "CNY",
     paymentMethods |-> <<"wechat", "alipay">>,
     authMethods |-> <<"wechat", "email">>,
     database |-> "cloudbase", deployment |-> "tencent", gdprCompliant |-> FALSE]

InternationalDefault ==
    [region |-> "usa", countryCode |-> "US", currency |-> "USD",
     paymentMethods |-> <<"stripe", "paypal">>,
     authMethods |-> <<"google", "email">>,
     database |-> "supabase", deployment |-> "vercel", gdprCompliant |-> FALSE]

PrivateIPs == {ip \in LocalIPs : isPrivateIP(ip)}

\* The network methods among those a chain has called.
NetworkInvoked(ch) == SelectSeq(ch.invoked, LAMBDA i : i < NumMethods)

\* C11 as stated: a chain execution for an address in a private range
\* issues no request, and its result is the private-address default.
C11_PrivateNoNetwork ==
    \A k \in ChainIds :
        chains[k].ip \in PrivateIPs
        => /\ chains[k].fetched = <<>>
           /\ chains[k].state = "resolved" => chains[k].result = PrivateIPDefault

\* C11 (amended): an address in a private range goes through the chain like
\* any address that is not loopback or empty: every network strategy the
\* chain calls issues its request, a country a service reports decides the
\* descriptor, and the local heuristic decides only after all three services
\* have failed; the result is then exactly the private-address default.
C11_PrivateAfterNetwork ==
    /\ [](\A k \in ChainIds :
            chains[k].ip \in PrivateIPs
            => /\ chains[k].fetched = NetworkInvoked(chains[k])
               /\ chains[k].fetched # <<>>
               /\ chains[k].state # "rejected"
               /\ (chains[k].state = "resolved" /\ chains[k].step = NumMethods)
                     => /\ chains[k].fetched = <<1, 2, 3>>
                        /\ chains[k].result = PrivateIPDefault)
    /\ [][\A k \in ChainIds, resp \in LocalResponses :
            (/\ MethodSettles(k, resp)
             /\ chains[k].ip \in PrivateIPs
             /\ chains[k].step < NumMethods)
            => IF resp = NoResponse
               THEN chains'[k].state = "running" /\ chains'[k].step = chains[k].step + 1
               ELSE /\ chains'[k].state = "resolved"
                    /\ chains'[k].result.countryCode = resp.cc
                    /\ chains'[k].result = PrivateIPDefault <=> resp.cc = "CN"
         ]_vars
    /\ [](
            (/\ last.role \in {"launcher", "joined"}
             /\ last.ip \in PrivateIPs
             /\ chains[last.promise].step = NumMethods)
            => last.outcome = Return(PrivateIPDefault))

\* A call for 10.0.0.5 returned the private-address default after the chain
\* had put its request to each of the three services and all had failed.
C11_Witness ==
    /\ last.role = "launcher"
    /\ last.ip = "10.0.0.5"
    /\ chains[last.promise].fetched = <<1, 2, 3>>
    /\ chains[last.promise].invoked = <<1, 2, 3, 4>>
    /\ last.outcome = Return(PrivateIPDefault)

\* C12: a chain execution for an empty or loopback address issues no
\* request: the first method short-circuits to the local heuristic, no other
\* method is called, and the heuristic's default (the international one, as
\* none of these addresses is in a private range) is what the chain yields,
\* what every caller receives and what the cache holds from then on.
C12_LoopbackNoNetwork ==
    /\ \A k \in ChainIds :
          chains[k].ip \in LoopbackIPs
          => /\ chains[k].fetched = <<>>
             /\ chains[k].invoked = <<1>>
             /\ chains[k].state \in {"running", "resolved"}
             /\ chains[k].state = "resolved" => chains[k].result = InternationalDefault
             /\ chains[k].published
                   => /\ MapHas(cache, chains[k].ip)
                      /\ cache[chains[k].ip].result = InternationalDefault
    /\ (last # Idle /\ last.ip \in LoopbackIPs)
          => last.outcome = Return(InternationalDefault)

\* A call for ::1 returned the international default, which is cached,
\* without a request having been issued.
C12_Witness ==
    /\ last.role = "launcher"
    /\ last.ip = "::1"
    /\ chains[last.promise].fetched = <<>>
    /\ chains[last.promise].state = "resolved"
    /\ last.outcome = Return(InternationalDefault)
    /\ MapHas(cache, "::1")
    /\ cache["::1"].result = InternationalDefault

\* C13: a chain yields a descriptor of region china only when a lookup
\* service answered with country code CN or when the local heuristic found
\* the address in a private range; every descriptor of region china that is
\* cached or returned is the result of such a chain; and a call for an
\* address outside the private ranges whose network strategies all failed
\* returns the international default.
C13_NoSilentChina ==
    /\ [][\A k \in ChainIds, resp \in LocalResponses :
            (/\ MethodSettles(k, resp)
             /\ chains'[k].state = "resolved"
             /\ chains'[k].result.region = "china")
            => \/ /\ IssuesFetch(chains[k].step, chains[k].ip)
                  /\ resp.fetch = "ok" /\ resp.ok2xx /\ resp.cc = "CN"
               \/ /\ ~IssuesFetch(chains[k].step, chains[k].ip)
                  /\ isPrivateIP(chains[k].ip)
         ]_vars
    /\ [](\A ip \in LocalIPs :
            (MapHas(cache, ip) /\ cache[ip].result.region = "china")
            => \E k \in ChainIds :
                  /\ chains[k].ip = ip
                  /\ chains[k].state = "resolved"
                  /\ chains[k].result = cache[ip].result)
    /\ [](last.outcome.result.region = "china"
            => \E k \in ChainIds :
                  /\ chains[k].ip = last.ip
                  /\ chains[k].state = "resolved"
                  /\ chains[k].result = last.outcome.result)
    /\ []((/\ last.role \in {"launcher", "joined"}
           /\ ~isPrivateIP(last.ip)
           /\ AllNetworkFailed(chains[last.promise]))
          => last.outcome = Return(InternationalDefault))

\* A call for a public address that no service could resolve returned the
\* international default, in a run in which the private-range heuristic had
\* chosen China for 10.0.0.5.
C13_Witness ==
    /\ last.role = "launcher"
    /\ last.ip = "203.0.113.5"
    /\ chains[last.promise].fetched = <<1, 2, 3>>
    /\ chains[last.promise].step = NumMethods
    /\ last.outcome = Return(InternationalDefault)
    /\ \E k \in ChainIds :
          /\ chains[k].ip = "10.0.0.5"
          /\ chains[k].step = NumMethods
          /\ chains[k].published
          /\ chains[k].result.region = "china"

\* The descriptors detect has produced, cached or just returned.
Descriptors ==
    {chains[k].result : k \in {j \in ChainIds : chains[j].state = "resolved"}}
    \cup {cache[ip].result : ip \in DOMAIN cache}
    \cup (IF last.outcome.kind = "return" THEN {last.outcome.result} ELSE {})

\* Equality in every field but region and countryCode.
SameBundle(d1, d2) ==
    /\ d1.currency = d2.currency
    /\ d1.paymentMethods = d2.paymentMethods
    /\ d1.authMethods = d2.authMethods
    /\ d1.database = d2.database
    /\ d1.deployment = d2.deployment
    /\ d1.gdprCompliant = d2.gdprCompliant

\* C14: any two descriptors that detect has produced, cached or returned
\* and that have the same region are equal in currency, paymentMethods,
\* authMethods, database, deployment and gdprCompliant, the default of the
\* catch block included; a country code outside the fixed lists gets region
\* other.
C14_RegionDeterminesBundle ==
    /\ \A d1, d2 \in Descriptors : d1.region = d2.region => SameBundle(d1, d2)
    /\ \A d \in Descriptors : d.countryCode \in {"ZZ", "XX"} => d.region = "other"

\* Two resolutions have produced descriptors of one region for two
\* different countries.
C14_Witness ==
    \E j, k \in ChainIds :
        /\ chains[j].state = "resolved" /\ chains[k].state = "resolved"
        /\ chains[j].result.countryCode = "GB"
        /\ chains[k].result.countryCode = "DE"
        /\ chains[j].result.region = chains[k].result.region
        /\ chains[j].published /\ chains[k].published

\* The region the classification assigns to a country code.
ClaimedRegion(cc) ==
    CASE cc = "CN" -> "china"
      [] cc = "US" -> "usa"
      [] cc = "IN" -> "india"
      [] cc = "SG" -> "singapore"
      [] cc \in EUROPEAN_COUNTRIES -> "europe"
      [] OTHER -> "other"

\* C15: when a lookup service answers with a country code the chain
\* resolves with the descriptor of exactly that code, whose region is china,
\* usa, india, singapore for CN, US, IN, SG, europe for a code of the
\* European list and other for anything else; US gives USD, stripe and
\* paypal and no GDPR flag, DE gives europe, no payment method and the GDPR
\* flag; and that descriptor is what the calls waiting on the chain return.
C15_ClassifiedByCountry ==
    /\ [][\A k \in ChainIds, resp \in RegionResponses :
            (/\ MethodSettles(k, resp)
             /\ IssuesFetch(chains[k].step, chains[k].ip)
             /\ resp # NoResponse)
            => /\ chains'[k].state = "resolved"
               /\ chains'[k].step = chains[k].step
               /\ chains'[k].result.countryCode = resp.cc
               /\ chains'[k].result.region = ClaimedRegion(resp.cc)
               /\ resp.cc = "US"
                     => /\ chains'[k].result.currency = "USD"
                        /\ chains'[k].result.paymentMethods = <<"stripe", "paypal">>
                        /\ chains'[k].result.gdprCompliant = FALSE
               /\ resp.cc = "DE"
                     => /\ chains'[k].result.region = "europe"
                        /\ chains'[k].result.paymentMethods = <<>>
                        /\ chains'[k].result.gdprCompliant = TRUE
         ]_vars
    /\ []((/\ last.role \in {"launcher", "joined"}
           /\ chains[last.promise].state = "resolved")
          => last.outcome = Return(chains[last.promise].result))

\* The primary service located 203.0.113.5 in DE and the call returned the
\* European descriptor.
C15_Witness ==
    /\ last.role = "launcher"
    /\ last.ip = "203.0.113.5"
    /\ chains[last.promise].invoked = <<1>>
    /\ last.outcome.kind = "return"
    /\ last.outcome.result.countryCode = "DE"
    /\ last.outcome.result.region = "europe"
    /\ last.outcome.result.paymentMethods = <<>>
    /\ last.outcome.result.gdprCompliant

Regions == {"china", "usa", "europe", "india", "singapore", "other"}

\* C16: whatever country code the classifier is called with (unknown,
\* empty, lower-case or malformed ones included), it returns a descriptor
\* that carries the code it was given, a region of the enumeration, and a
\* currency, a database backend and a deployment target that are not empty.
C16_ClassifierTotal ==
    classified.by # "none"
    => /\ classified.descriptor.countryCode = classified.countryCode
       /\ classified.descriptor.region \in Regions
       /\ classified.descriptor.currency \in {"CNY", "EUR", "USD"}
       /\ classified.descriptor.database \in {"cloudbase", "supabase"}
       /\ classified.descriptor.deployment \in {"tencent", "vercel"}
       /\ classified.countryCode \in MalformedCodes
             => /\ classified.descriptor.region = "other"
                /\ classified.descriptor.currency = "USD"
                /\ classified.descriptor.database = "supabase"
                /\ classified.descriptor.deployment = "vercel"

\* The exported classifier was called with a lower-case code and returned
\* the descriptor of region other.
C16_Witness ==
    /\ classified.by = "getRegionConfig"
    /\ classified.countryCode = "cn"
    /\ classified.descriptor.region = "other"
    /\ classified.descriptor.currency = "USD"

\* C17: with every network strategy failing or timing out, a detect call
\* that waited for the chain (launched at time 0) returns a complete
\* descriptor, and returns it no later than three per-attempt timeouts
\* after the launch.
C17_BoundedLatency ==
    last.role \in {"launcher", "joined"}
    => /\ last.outcome.kind = "return"
       /\ Complete(last.outcome.result)
       /\ now <= (NumMethods - 1) * REQUEST_TIMEOUT

\* C18 as stated: whatever options a detect call passes, it is not served a
\* cached descriptor that was cached one hour or more before the call.
C18_FixedTTL ==
    [][\A c \in Callers, ip \in IPs, opt \in TTLOptions :
          (Detect(c, ip, opt) /\ last'.role = "hit")
          => now - cache[ip].timestamp < CACHE_TTL
      ]_vars

\* C18 (amended): the TTL is that of the reading call: its cacheTTL option
\* when that is a number other than zero, one hour otherwise.  No detect
\* call is served a descriptor cached at least its own TTL before the call;
\* a call without the option is served none cached an hour or more before;
\* the age counts from the moment the launching call stored the entry.
C18_CallTTL ==
    /\ [][\A c \in Callers, ip \in IPs, opt \in TTLOptions :
            (Detect(c, ip, opt) /\ last'.role = "hit")
            => /\ MapHas(cache, ip)
               /\ last'.outcome = Return(cache[ip].result)
               /\ opt = 0 => now - cache[ip].timestamp < 1000 * 60 * 60
               /\ opt # 0 => now - cache[ip].timestamp < opt
         ]_vars
    /\ [][\A c \in Callers :
            LauncherResumes(c)
            => /\ MapHas(cache', callers[c].ip)
               /\ cache'[callers[c].ip].timestamp = now
         ]_vars

\* A call was served a descriptor that had been cached at least one hour
\* before (the call passed a longer TTL).
C18_Witness ==
    /\ last.role = "hit"
    /\ MapHas(cache, last.ip)
    /\ now - cache[last.ip].timestamp >= CACHE_TTL
    /\ last.outcome = Return(cache[last.ip].result)

\* C19: no step of detect removes a cache entry.  An entry stays as it is,
\* also once it is stale, until the launching call of a later resolution for
\* the same IP overwrites it on its completion; the set of cached IPs only
\* grows.
C19_NeverEvicts ==
    [][\A ip \in DOMAIN cache :
          /\ MapHas(cache', ip)
          /\ cache'[ip] # cache[ip]
                => \E c \in Callers :
                      /\ LauncherResumes(c)
                      /\ callers[c].ip = ip
                      /\ cache'[ip] = [result |-> Published(chains[callers[c].promise]),
                                       timestamp |-> now]
      ]_vars

\* The second resolution for an IP has just completed and overwritten the
\* entry that the first had left and that had stayed in the cache, stale,
\* until then.
C19_Witness ==
    /\ last.role = "launcher"
    /\ now >= CACHE_TTL
    /\ MapHas(cache, last.ip)
    /\ cache[last.ip].timestamp = now
    /\ \E j \in ChainIds :
          /\ j < last.promise
          /\ chains[j].ip = last.ip
          /\ chains[j].published

\* C20: the descriptor the cache holds for an IP changes only when the
\* launching call of a resolution for that IP stores its result, and a
\* descriptor that a chain has produced never changes afterwards, so that
\* every call is handed the descriptor as it was produced.
C20_Immutable ==
    [][/\ \A ip \in DOMAIN cache :
            (MapHas(cache', ip) /\ cache'[ip].result # cache[ip].result)
            => \E c \in Callers : LauncherResumes(c) /\ callers[c].ip = ip
       /\ \A k \in ChainIds :
            chains[k].state = "resolved" => chains'[k].result = chains[k].result
      ]_vars

\* C21: resolutions for different IPs are not serialized.  A detect(b) call
\* that finds b neither fresh in the cache nor in flight launches a chain of
\* its own whatever is in flight for other addresses, and leaves their
\* in-flight entries alone; and the completion of the resolution for one
\* address leaves the in-flight entry and the chain of every other address
\* as they were, so the later chain can complete first.
C21_NotSerialized ==
    [][/\ \A c \in Callers, b \in LocalIPs :
            (/\ Detect(c, b, 0)
             /\ ~CacheFresh(cache, b, now, CACHE_TTL)
             /\ ~MapHas(pendingRequests, b))
            => /\ Len(chains') = Len(chains) + 1
               /\ chains'[Len(chains')].ip = b
               /\ chains'[Len(chains')].state = "running"
               /\ MapHas(pendingRequests', b)
               /\ pendingRequests'[b] = Len(chains')
               /\ \A a \in DOMAIN pendingRequests :
                     /\ MapHas(pendingRequests', a)
                     /\ pendingRequests'[a] = pendingRequests[a]
                     /\ chains'[pendingRequests[a]] = chains[pendingRequests[a]]
       /\ \A c \in Callers :
            LauncherResumes(c)
            => \A a \in DOMAIN pendingRequests \ {callers[c].ip} :
                  /\ MapHas(pendingRequests', a)
                  /\ pendingRequests'[a] = pendingRequests[a]
                  /\ chains'[pendingRequests[a]] = chains[pendingRequests[a]]
      ]_vars

\* The resolution for one address has just been published while the chain
\* launched earlier for another address is still running.
C21_Witness ==
    /\ last.role = "launcher"
    /\ chains[last.promise].published
    /\ \E j \in ChainIds :
          /\ j < last.promise
          /\ chains[j].ip # last.ip
          /\ chains[j].state = "running"
          /\ MapHas(pendingRequests, chains[j].ip)
          /\ pendingRequests[chains[j].ip] = j

\* C22: one adapter per (kind, region): every getAuth call returns an
\* adapter that was constructed for the region the call is for, the
\* CloudBase adapter for CN and the Supabase adapter for INTL.
C22_AdapterOfRegion ==
    authLast.op = "getAuth"
    => /\ authLast.returned \in 1..Len(adapters)
       /\ adapters[authLast.returned].region = authLast.target
       /\ adapters[authLast.returned].kind =
             IF authLast.target = "CN" THEN "CloudBaseAuthAdapter"
             ELSE "SupabaseAuthAdapter"

\* C23: adapter selection is memoized per region: the first getAuth call for
\* a region constructs the adapter for it, and every later call for that
\* region returns the instance the first call returned and constructs
\* nothing.
C23_Memoized ==
    [][\A region \in DeploymentRegions \cup {NoRegion} :
          GetAuth(region)
          => LET t == TargetRegion(region, env) IN
             IF handedOut[t] = 0
             THEN /\ authLast'.constructed
                  /\ Len(adapters') = Len(adapters) + 1
                  /\ adapters'[authLast'.returned].region = t
             ELSE /\ authLast'.returned = handedOut[t]
                  /\ ~authLast'.constructed
                  /\ adapters' = adapters
      ]_vars

\* An adapter that can work: the CloudBase adapter always, the Supabase
\* adapter when it has its client or is about to get it.
CanWork(adapter, e) ==
    \/ adapter.kind = "CloudBaseAuthAdapter"
    \/ adapter.supabase = "client"
    \/ adapter.supabase = "importing" /\ e.supabaseConfigured

\* C24: a construction that fails is raised to the caller of getAuth: the
\* adapter getAuth returns is one that can work.
C24_FailureSurfaced ==
    (authLast.op = "getAuth" /\ authLast.outcome.kind = "return")
    => CanWork(adapters[authLast.returned], env)

\* C25: under every interleaving of getAuth calls the adapter constructor
\* runs at most once per region: no two adapters were constructed for the
\* same region, and a call that finds an instance constructs nothing.
C25_OneConstruction ==
    /\ \A i, j \in 1..Len(adapters) :
          adapters[i].region = adapters[j].region => i = j
    /\ (authLast.op = "getAuth" /\ authLast.constructed)
       => /\ authLast.returned = Len(adapters)
          /\ adapters[authLast.returned].region = authLast.target

\* A second getAuth call for the region of the instance has returned it
\* without constructing.
C25_Witness ==
    /\ authLast.op = "getAuth"
    /\ ~authLast.constructed
    /\ adapters[authLast.returned].region = authLast.target
    /\ Len(adapters) = 1

\* C26: within one chain execution each network strategy is attempted at
\* most once, with no retry and no delay, whatever maxRetries the caller
\* passes: the chain a detect call launches is the same for every
\* maxRetries, the methods a chain has called are 1, 2, ... in order with no
\* repeat, each request is issued once, and when an attempt fails the next
\* method is called in the same step, with no time passing.
C26_NoRetry ==
    /\ [](\A k \in ChainIds :
            /\ chains[k].invoked = [i \in 1..Len(chains[k].invoked) |-> i]
            /\ Len(chains[k].invoked) <= NumMethods
            /\ \A i, j \in 1..Len(chains[k].fetched) :
                  chains[k].fetched[i] = chains[k].fetched[j] => i = j)
    /\ [][/\ \A c \in Callers, ip \in RetryIPs, options \in RetryOptions :
               (DetectWithOptions(c, ip, options) /\ Len(chains') > Len(chains))
               => chains'[Len(chains')] = performDetection(ip)
          /\ \A k \in ChainIds, resp \in Responses :
               (/\ MethodSettles(k, resp)
                /\ ~detectionMethods(chains[k].step, chains[k].ip, resp).ok
                /\ chains[k].step < NumMethods)
               => /\ chains'[k].invoked = Append(chains[k].invoked, chains[k].step + 1)
                  /\ now' = now
         ]_vars

\* A chain has gone through all three network strategies, each of which
\* failed, and has called each once.
C26_Witness ==
    \E k \in ChainIds :
        /\ chains[k].fetched = <<1, 2, 3>>
        /\ chains[k].invoked = <<1, 2, 3, 4>>
        /\ chains[k].state # "running"

\* C27: on either connector, after every sequence of initialize, close and
\* getClient calls, getClient returns the client (the one the last
\* successful initialize made) exactly when an initialize has succeeded and
\* no close has happened since; otherwise it throws the 'client not
\* initialized' error of the connector.
C27_ClientWhenInitialized ==
    connLast.op = "getClient"
    => LET conn == connectors[connLast.kind] IN
       IF conn.live
       THEN /\ connLast.outcome.kind = "return"
            /\ connLast.outcome.value.client = conn.inits
       ELSE connLast.outcome = ConnThrow(NotInitialized(connLast.kind))

\* getClient has just thrown on a connector that had been initialized and
\* was closed afterwards.
C27_Witness ==
    /\ connLast.op = "getClient"
    /\ connLast.outcome.kind = "throw"
    /\ connectors[connLast.kind].inits > 0
    /\ connectors[connLast.kind].closed

\* C28: a failed initialize is raised to the caller and leaves the connector
\* as it was; an initialize for which the SDK makes a client succeeds
\* whatever happened before, a failed initialize or a close included, and
\* getClient then returns.
C28_InitializeRecovers ==
    [][/\ \A kind \in ConnectorKinds, sdk \in SdkOutcomes :
            Initialize(kind, sdk)
            => IF sdk = "throws"
               THEN /\ connLast'.outcome = ConnThrow(SdkError)
                    /\ connectors'[kind].client = connectors[kind].client
               ELSE /\ connLast'.outcome.kind = "return"
                    /\ connectors'[kind].client # 0
                    /\ getClient(kind, connectors'[kind]).kind = "return"
       /\ \A kind \in ConnectorKinds :
            (/\ GetClient(kind)
             /\ connectors[kind].live
             /\ connectors[kind].failed \/ connectors[kind].closed)
            => connLast'.outcome.kind = "return"
      ]_vars

\* getClient has just returned the client of a connector on which an
\* initialize had failed and which had been closed.
C28_Witness ==
    /\ connLast.op = "getClient"
    /\ connLast.outcome.kind = "return"
    /\ connectors[connLast.kind].failed
    /\ connectors[connLast.kind].closed

\* C29: testConnection never throws and leaves the client of the connector
\* as it is: called without a client it returns false; otherwise it returns
\* true when its query succeeds and false when the query fails, whatever
\* earlier tests returned.
C29_TestConnectionSafe ==
    [][\A kind \in ConnectorKinds :
          /\ TestStarts(kind)
             => /\ connectors'[kind].client = connectors[kind].client
                /\ IF connectors[kind].client = 0
                   THEN connLast'.outcome = ConnReturn(FALSE)
                   ELSE connLast'.op = "none"
          /\ \A query \in QueryOutcomes(kind) :
                TestSettles(kind, query)
                => /\ connectors'[kind].client = connectors[kind].client
                   /\ connLast'.outcome.kind = "return"
                   /\ connLast'.outcome.value = (query = "resolved")
      ]_vars

\* A test has just returned true on a connector on which an earlier test
\* had returned false.
C29_Witness ==
    /\ connLast.op = "testConnection"
    /\ connLast.outcome = ConnReturn(TRUE)
    /\ connectors[connLast.kind].testFailed

\* C30: from the launch of the first chain for an IP on, the IP is in every
\* state in the in-flight map or in the cache: until the launching call has
\* resumed the in-flight map holds its chain, and the step in which that
\* call resumes writes the cache entry and removes the in-flight entry, so
\* once the resolution is published the cache has an entry for the IP.
C30_InFlightOrCached ==
    \A k \in ChainIds :
        /\ MapHas(pendingRequests, chains[k].ip) \/ MapHas(cache, chains[k].ip)
        /\ chains[k].published => MapHas(cache, chains[k].ip)
        /\ ~chains[k].published
           => /\ MapHas(pendingRequests, chains[k].ip)
              /\ pendingRequests[chains[k].ip] = k

\* The launching call has just resumed: the IP has left the in-flight map
\* and is in the cache with an entry written in this step, while a call that
\* coalesced onto the resolution has yet to resume.
C30_Witness ==
    /\ last.role = "launcher"
    /\ ~MapHas(pendingRequests, last.ip)
    /\ MapHas(cache, last.ip)
    /\ cache[last.ip].timestamp = now
    /\ \E c \in Callers :
          /\ callers[c].role = "joined"
          /\ callers[c].promise = last.promise

\* C31: each network attempt is bounded by the per-attempt timeout for its
\* whole duration: from the request being issued to the strategy settling,
\* with the body read and parsed, no more than the timeout passes.
C31_AttemptWithinTimeout ==
    [][\A k \in ChainIds :
          (/\ chains[k].state = "running"
           /\ IssuesFetch(chains[k].step, chains[k].ip)
           /\ chains'[k] # chains[k])
          => now' - now <= REQUEST_TIMEOUT
      ]_vars

\* The fields the two classifiers have in common.
SharedFields(d) ==
    [region |-> d.region, currency |-> d.currency,
     paymentMethods |-> d.paymentMethods, authMethods |-> d.authMethods,
     database |-> d.database, deployment |-> d.deployment,
     gdprCompliant |-> d.gdprCompliant]

\* C32: for every country code the exported classifier getRegionConfig and
\* the router's buildGeoResult agree on region, currency, paymentMethods,
\* authMethods, database, deployment and gdprCompliant: what either has
\* returned for a code is what the other returns for it.
C32_ClassifiersAgree ==
    classified.by # "none"
    => SharedFields(classified.descriptor)
         = SharedFields(IF classified.by = "getRegionConfig"
                        THEN buildGeoResult(classified.countryCode)
                        ELSE getRegionConfig(classified.countryCode))

\* C33: clearCache removes every cache entry, so that getCacheStats reports
\* size 0 right after it, and leaves the in-flight map, the chains and the
\* waiting calls as they are; a call for an IP that is in flight after the
\* cache was cleared coalesces onto the resolution, and the launching call,
\* on completion, writes the result of its chain into the cache whatever
\* clearCache did to it meanwhile.
C33_ClearCacheFrame ==
    [][/\ ClearCache
          => /\ getCacheStats(cache').size = 0
             /\ getCacheStats(cache').entries = {}
             /\ pendingRequests' = pendingRequests
             /\ chains' = chains
             /\ callers' = callers
       /\ \A c \in Callers, ip \in ClearIPs :
            (Detect(c, ip, 0) /\ ~MapHas(cache, ip) /\ MapHas(pendingRequests, ip))
            => /\ callers'[c].role = "joined"
               /\ callers'[c].promise = pendingRequests[ip]
               /\ chains' = chains
       /\ \A c \in Callers :
            LauncherResumes(c)
            => /\ MapHas(cache', callers[c].ip)
               /\ cache'[callers[c].ip].result = Published(chains[callers[c].promise])
               /\ getCacheStats(cache').size = getCacheStats(cache).size
                     + (IF MapHas(cache, callers[c].ip) THEN 0 ELSE 1)
      ]_vars

\* The cache has just been cleared of the entry an earlier resolution had
\* left, while the resolution for another IP is in flight, with its
\* in-flight entry in place.
C33_Witness ==
    /\ cache = EmptyMap
    /\ last = Idle
    /\ \E j \in ChainIds : chains[j].published
    /\ \E k \in ChainIds :
          /\ chains[k].state = "running"
          /\ MapHas(pendingRequests, chains[k].ip)
          /\ pendingRequests[chains[k].ip] = k
          /\ \E c \in Callers : callers[c].role = "joined" /\ callers[c].promise = k

\* C34: a detect(a) call changes only the cache entry and the in-flight
\* entry keyed by a: in each of its steps (the call itself, the settling of
\* a method of its chain, the resumption of the launching call or of a
\* coalesced one) the cache entry and the in-flight entry of every other IP,
\* present or absent, stay as they are.
C34_OnlyOwnEntries ==
    [][\A a \in ClearIPs :
          (\/ \E c \in Callers : Detect(c, a, 0)
           \/ \E k \in ChainIds, resp \in LocalResponses :
                 chains[k].ip = a /\ MethodSettles(k, resp)
           \/ \E c \in Callers : callers[c].ip = a /\ LauncherResumes(c)
           \/ \E c \in Callers : callers[c].ip = a /\ JoinerResumes(c))
          => \A b \in ClearIPs \ {a} :
                /\ MapHas(cache', b) <=> MapHas(cache, b)
                /\ MapHas(cache, b) => cache'[b] = cache[b]
                /\ MapHas(pendingRequests', b) <=> MapHas(pendingRequests, b)
                /\ MapHas(pendingRequests, b) => pendingRequests'[b] = pendingRequests[b]
      ]_vars

\* The launching call for one IP has just stored its result and left the
\* in-flight map while the other IP, resolved earlier, has its entry in the
\* cache.
C34_Witness ==
    /\ last.role = "launcher"
    /\ MapHas(cache, last.ip)
    /\ ~MapHas(pendingRequests, last.ip)
    /\ \E b \in ClearIPs \ {last.ip} :
          /\ MapHas(cache, b)
          /\ \E j \in ChainIds : chains[j].ip = b /\ chains[j].published

\* C35: when processPayment finishes, by returning or by throwing, the
\* record it created is no longer pending: it is completed when the
\* provider's result reported success and failed otherwise, also when the
\* provider step threw.
C35_RecordSettled ==
    (payLast.kind \in {"return", "throw"} /\ payLast.record # 0)
    => payments[payLast.record].status = StatusFor(payLast.success)

\* C36: withRetry calls fn at most maxRetries + 1 times; when fn resolves
\* it returns the value and calls fn no more; when fn rejects with an error
\* that classifyError marks as not retryable it throws at once, with no
\* timer and no further call; and whenever it throws, what it throws is
\* the ArchitectureError that classifyError makes of the error of the last
\* attempt.
C36_BoundedRetries ==
    /\ [](/\ retry.calls <= retry.maxRetries + 1
          /\ retry.pc = "returned" => retry.returned = RetryValue
          /\ retry.pc = "thrown"
             => /\ retry.thrown = classifyError(retry.lastError)
                /\ retry.thrown.arch
                /\ retry.thrown.name = "ArchitectureError")
    /\ [][/\ FnResolves
             => /\ retry'.pc = "returned"
                /\ retry'.calls = retry.calls
          /\ \A error \in RetryErrors :
               (FnRejects(error) /\ ~classifyError(error).retryable)
               => /\ retry'.pc = "thrown"
                  /\ retry'.calls = retry.calls
                  /\ retry'.delay = retry.delay
          /\ (retry.pc \in {"returned", "thrown"} /\ retry'.pc # "calling")
             => retry'.calls = retry.calls
         ]_vars

\* withRetry has thrown the classified error of its last attempt after
\* having called fn maxRetries + 1 times, more than once.
C36_Witness ==
    /\ retry.pc = "thrown"
    /\ retry.calls = retry.maxRetries + 1
    /\ retry.calls > 1
    /\ retry.thrown.retryable
    /\ ~retry.lastError.arch

\* C37: executeWithFallbacks calls the fallbacks in registration order:
\* the ones called so far are the first ones registered, in order, and each
\* but the one awaited has failed.  It returns the value of the first one
\* that succeeds and calls none after it, and it throws the 'All fallbacks
\* failed' error, with the errors collected, exactly when the last
\* registered fallback has failed as all before it, or none is registered.
C37_FallbackOrder ==
    /\ [](/\ fallback.invoked = [i \in 1..Len(fallback.invoked) |-> i]
          /\ Len(fallback.invoked) <= Len(fallback.fallbacks)
          /\ fallback.pc = "running"
             => /\ fallback.index = Len(fallback.invoked)
                /\ Len(fallback.errors) = fallback.index - 1
          /\ fallback.pc = "returned"
             => /\ fallback.returned = FallbackValue(fallback.fallbacks[Len(fallback.invoked)])
                /\ Len(fallback.errors) = Len(fallback.invoked) - 1
          /\ fallback.pc = "thrown"
             => /\ fallback.thrown = AllFallbacksFailed(fallback.errors)
                /\ Len(fallback.errors) = Len(fallback.invoked)
                /\ \A i \in 1..Len(fallback.errors) :
                      fallback.errors[i] = FallbackError(fallback.fallbacks[i]))
    /\ [][/\ \A ok \in BOOLEAN :
               FallbackSettles(ok)
               => /\ ok => /\ fallback'.pc = "returned"
                           /\ fallback'.invoked = fallback.invoked
                  /\ fallback'.pc = "thrown"
                     <=> (~ok /\ fallback.index = Len(fallback.fallbacks))
          /\ ExecuteWithFallbacks
             => (fallback'.pc = "thrown" <=> fallback.fallbacks = <<>>)
          /\ (fallback.pc \in {"returned", "thrown"} /\ fallback'.pc = fallback.pc)
             => fallback'.invoked = fallback.invoked
         ]_vars

\* executeWithFallbacks has returned the value of the second fallback
\* registered, after the first had failed, and has not called the third.
C37_Witness ==
    /\ fallback.pc = "returned"
    /\ Len(fallback.fallbacks) = 3
    /\ fallback.invoked = <<1, 2>>
    /\ Len(fallback.errors) = 1
    /\ fallback.returned = FallbackValue(fallback.fallbacks[2])

====
